---- MODULE Spec2Model ----
(***************************************************************************)
(* Model of the question matching and merging pipeline of                  *)
(* Vaia_Questiongenerator: lib/frameworksData (src/unnamed/part_000) and   *)
(* lib/openai.ts.                                                          *)
(*                                                                         *)
(* A text is a sequence of UTF-16 code units, as a JavaScript string is.   *)
(* An ASCII unit is the one-character string of that character; a unit     *)
(* outside ASCII is named by a longer string such as "U+D83C".  Chars(s)   *)
(* turns a literal into a text.  Scores are double-precision numbers.      *)
(***************************************************************************)
EXTENDS Integers, Sequences, FiniteSets, TLC

(***************************************************************************)
(* Characters and the character classes of the regular expressions.        *)
(***************************************************************************)
Chars(s) == [i \in 1..Len(s) |-> SubSeq(s, i, i)]

CharSet(s) == {SubSeq(s, i, i) : i \in 1..Len(s)}

LowerAlphabet == "abcdefghijklmnopqrstuvwxyz"

UpperAlphabet == "ABCDEFGHIJKLMNOPQRSTUVWXYZ"

LowerLetters == CharSet(LowerAlphabet)

UpperLetters == CharSet(UpperAlphabet)

Letters == LowerLetters \cup UpperLetters

Digits == CharSet("0123456789")

\* \w of a JavaScript regular expression
WordChars == Letters \cup Digits \cup {"_"}

\* \s of a JavaScript regular expression, and what trim removes: the white space and
\* the line terminators of ECMAScript
Whitespace == {" ", "\t", "\n", "\r", "\f", "U+000B", "U+00A0", "U+1680",
               "U+2000", "U+2001", "U+2002", "U+2003", "U+2004", "U+2005", "U+2006",
               "U+2007", "U+2008", "U+2009", "U+200A", "U+2028", "U+2029", "U+202F",
               "U+205F", "U+3000", "U+FEFF"}

\* U+0060, the grave accent, which a TLA+ string literal cannot hold
GraveAccent == "U+0060"

\* the class [.,\/#!$%\^&\*;:{}=\-_~()] plus the grave accent, stripped by the scorer
\* and by normalizeQuestion
StrippedPunctuation == CharSet(".,/#!$%^&*;:{}=-_~()") \cup {GraveAccent}

\* the class [\w\s\?\.\,\;\:\-\'\/] kept by cleanInput and by the clean-up of the model output
SafeChars == WordChars \cup Whitespace \cup CharSet("?.,;:-'/")

\* the class [a-zA-Z0-9\s\?\.\,\;\:\-\'\/] allowed at the end of the model output
TrailingAllowed == Letters \cup Digits \cup Whitespace \cup CharSet("?.,;:-'/")

\* the class [,.?;:'"!()] removed from a keyword by extractKeywords
KeywordPunctuation == CharSet(",.?;:'\"!()")

LowerMap == [c \in UpperLetters |->
               LET i == CHOOSE k \in 1..26 : SubSeq(UpperAlphabet, k, k) = c
               IN  SubSeq(LowerAlphabet, i, i)]

UpperMap == [c \in LowerLetters |->
               LET i == CHOOSE k \in 1..26 : SubSeq(LowerAlphabet, k, k) = c
               IN  SubSeq(UpperAlphabet, i, i)]

(***************************************************************************)
(* Code units and code points.  HexDigits names the units outside the      *)
(* printable ASCII range; AsciiLow and AsciiHigh hold the characters of     *)
(* codes 32..95 and 97..126.                                               *)
(***************************************************************************)
HexDigits == "0123456789ABCDEF"

AsciiLow == " !\"#$%&'()*+,-./0123456789:;<=>?@ABCDEFGHIJKLMNOPQRSTUVWXYZ[\\]^_"

AsciiHigh == "abcdefghijklmnopqrstuvwxyz{|}~"

IndexIn(s, c) == CHOOSE k \in 1..Len(s) : SubSeq(s, k, k) = c

IsNamedUnit(u) == Len(u) = 6

\* the value of a code unit (charCodeAt)
UnitValue(u) ==
  IF IsNamedUnit(u)
  THEN   4096 * (IndexIn(HexDigits, SubSeq(u, 3, 3)) - 1)
       + 256 * (IndexIn(HexDigits, SubSeq(u, 4, 4)) - 1)
       + 16 * (IndexIn(HexDigits, SubSeq(u, 5, 5)) - 1)
       + (IndexIn(HexDigits, SubSeq(u, 6, 6)) - 1)
  ELSE IF u = "\t" THEN 9
  ELSE IF u = "\n" THEN 10
  ELSE IF u = "\f" THEN 12
  ELSE IF u = "\r" THEN 13
  ELSE IF \E k \in 1..Len(AsciiLow) : SubSeq(AsciiLow, k, k) = u
  THEN 31 + IndexIn(AsciiLow, u)
  ELSE 96 + IndexIn(AsciiHigh, u)

\* the code unit of a value (String.fromCharCode)
UnitOf(v) ==
  IF v = 9 THEN "\t"
  ELSE IF v = 10 THEN "\n"
  ELSE IF v = 12 THEN "\f"
  ELSE IF v = 13 THEN "\r"
  ELSE IF v \in 32..95 THEN SubSeq(AsciiLow, v - 31, v - 31)
  ELSE IF v \in 97..126 THEN SubSeq(AsciiHigh, v - 96, v - 96)
  ELSE "U+" \o SubSeq(HexDigits, (v \div 4096) + 1, (v \div 4096) + 1)
            \o SubSeq(HexDigits, ((v \div 256) % 16) + 1, ((v \div 256) % 16) + 1)
            \o SubSeq(HexDigits, ((v \div 16) % 16) + 1, ((v \div 16) % 16) + 1)
            \o SubSeq(HexDigits, (v % 16) + 1, (v % 16) + 1)

IsHighSurrogate(u) == IsNamedUnit(u) /\ UnitValue(u) \in 55296..56319

IsLowSurrogate(u) == IsNamedUnit(u) /\ UnitValue(u) \in 56320..57343

\* the code point that starts at unit i of t, and the number of units it takes (the
\* u flag of a regular expression reads a surrogate pair as one character)
CodePointAt(t, i) ==
  IF i < Len(t) /\ IsHighSurrogate(t[i]) /\ IsLowSurrogate(t[i+1])
  THEN [value |-> 65536 + (UnitValue(t[i]) - 55296) * 1024 + (UnitValue(t[i+1]) - 56320),
        width |-> 2]
  ELSE [value |-> UnitValue(t[i]), width |-> 1]

\* the code points of t, in order
CodePoints(t) ==
  LET Starts(i) == ~(i > 1 /\ IsLowSurrogate(t[i]) /\ IsHighSurrogate(t[i-1]))
      at == SelectSeq([i \in 1..Len(t) |-> i], Starts)
  IN  [k \in 1..Len(at) |-> CodePointAt(t, at[k]).value]

\* the code units of the code points cps
UnitsOf(cps) ==
  LET First(v) == IF v < 65536 THEN UnitOf(v) ELSE UnitOf(55296 + ((v - 65536) \div 1024))
      Second(v) == IF v < 65536 THEN "" ELSE UnitOf(56320 + ((v - 65536) % 1024))
      both == [j \in 1..(2 * Len(cps)) |->
                 IF j % 2 = 1 THEN First(cps[(j + 1) \div 2]) ELSE Second(cps[j \div 2])]
  IN  SelectSeq(both, LAMBDA u : u # "")

(***************************************************************************)
(* String.prototype.toLowerCase: the case mapping of the Unicode Character *)
(* Database (version 17).  A rule <<first, last, step, delta>> lowers the   *)
(* code points first, first + step, ..., last by adding delta.             *)
(***************************************************************************)
LowerCaseRules == {
  <<65, 90, 1, 32>>, <<192, 214, 1, 32>>, <<216, 222, 1, 32>>, <<256, 302, 2, 1>>, <<304, 304, 1, -199>>,
  <<306, 310, 2, 1>>, <<313, 327, 2, 1>>, <<330, 374, 2, 1>>, <<376, 376, 1, -121>>, <<377, 381, 2, 1>>,
  <<385, 385, 1, 210>>, <<386, 388, 2, 1>>, <<390, 390, 1, 206>>, <<391, 391, 1, 1>>, <<393, 394, 1, 205>>,
  <<395, 395, 1, 1>>, <<398, 398, 1, 79>>, <<399, 399, 1, 202>>, <<400, 400, 1, 203>>, <<401, 401, 1, 1>>,
  <<403, 403, 1, 205>>, <<404, 404, 1, 207>>, <<406, 406, 1, 211>>, <<407, 407, 1, 209>>, <<408, 408, 1, 1>>,
  <<412, 412, 1, 211>>, <<413, 413, 1, 213>>, <<415, 415, 1, 214>>, <<416, 420, 2, 1>>, <<422, 422, 1, 218>>,
  <<423, 423, 1, 1>>, <<425, 425, 1, 218>>, <<428, 428, 1, 1>>, <<430, 430, 1, 218>>, <<431, 431, 1, 1>>,
  <<433, 434, 1, 217>>, <<435, 437, 2, 1>>, <<439, 439, 1, 219>>, <<440, 440, 1, 1>>, <<444, 444, 1, 1>>,
  <<452, 452, 1, 2>>, <<453, 453, 1, 1>>, <<455, 455, 1, 2>>, <<456, 456, 1, 1>>, <<458, 458, 1, 2>>,
  <<459, 475, 2, 1>>, <<478, 494, 2, 1>>, <<497, 497, 1, 2>>, <<498, 500, 2, 1>>, <<502, 502, 1, -97>>,
  <<503, 503, 1, -56>>, <<504, 542, 2, 1>>, <<544, 544, 1, -130>>, <<546, 562, 2, 1>>, <<570, 570, 1, 10795>>,
  <<571, 571, 1, 1>>, <<573, 573, 1, -163>>, <<574, 574, 1, 10792>>, <<577, 577, 1, 1>>, <<579, 579, 1, -195>>,
  <<580, 580, 1, 69>>, <<581, 581, 1, 71>>, <<582, 590, 2, 1>>, <<880, 882, 2, 1>>, <<886, 886, 1, 1>>,
  <<895, 895, 1, 116>>, <<902, 902, 1, 38>>, <<904, 906, 1, 37>>, <<908, 908, 1, 64>>, <<910, 911, 1, 63>>,
  <<913, 929, 1, 32>>, <<931, 939, 1, 32>>, <<975, 975, 1, 8>>, <<984, 1006, 2, 1>>, <<1012, 1012, 1, -60>>,
  <<1015, 1015, 1, 1>>, <<1017, 1017, 1, -7>>, <<1018, 1018, 1, 1>>, <<1021, 1023, 1, -130>>, <<1024, 1039, 1, 80>>,
  <<1040, 1071, 1, 32>>, <<1120, 1152, 2, 1>>, <<1162, 1214, 2, 1>>, <<1216, 1216, 1, 15>>, <<1217, 1229, 2, 1>>,
  <<1232, 1326, 2, 1>>, <<1329, 1366, 1, 48>>, <<4256, 4293, 1, 7264>>, <<4295, 4295, 1, 7264>>, <<4301, 4301, 1, 7264>>,
  <<5024, 5103, 1, 38864>>, <<5104, 5109, 1, 8>>, <<7305, 7305, 1, 1>>, <<7312, 7354, 1, -3008>>, <<7357, 7359, 1, -3008>>,
  <<7680, 7828, 2, 1>>, <<7838, 7838, 1, -7615>>, <<7840, 7934, 2, 1>>, <<7944, 7951, 1, -8>>, <<7960, 7965, 1, -8>>,
  <<7976, 7983, 1, -8>>, <<7992, 7999, 1, -8>>, <<8008, 8013, 1, -8>>, <<8025, 8031, 2, -8>>, <<8040, 8047, 1, -8>>,
  <<8072, 8079, 1, -8>>, <<8088, 8095, 1, -8>>, <<8104, 8111, 1, -8>>, <<8120, 8121, 1, -8>>, <<8122, 8123, 1, -74>>,
  <<8124, 8124, 1, -9>>, <<8136, 8139, 1, -86>>, <<8140, 8140, 1, -9>>, <<8152, 8153, 1, -8>>, <<8154, 8155, 1, -100>>,
  <<8168, 8169, 1, -8>>, <<8170, 8171, 1, -112>>, <<8172, 8172, 1, -7>>, <<8184, 8185, 1, -128>>, <<8186, 8187, 1, -126>>,
  <<8188, 8188, 1, -9>>, <<8486, 8486, 1, -7517>>, <<8490, 8490, 1, -8383>>, <<8491, 8491, 1, -8262>>, <<8498, 8498, 1, 28>>,
  <<8544, 8559, 1, 16>>, <<8579, 8579, 1, 1>>, <<9398, 9423, 1, 26>>, <<11264, 11311, 1, 48>>, <<11360, 11360, 1, 1>>,
  <<11362, 11362, 1, -10743>>, <<11363, 11363, 1, -3814>>, <<11364, 11364, 1, -10727>>, <<11367, 11371, 2, 1>>, <<11373, 11373, 1, -10780>>,
  <<11374, 11374, 1, -10749>>, <<11375, 11375, 1, -10783>>, <<11376, 11376, 1, -10782>>, <<11378, 11378, 1, 1>>, <<11381, 11381, 1, 1>>,
  <<11390, 11391, 1, -10815>>, <<11392, 11490, 2, 1>>, <<11499, 11501, 2, 1>>, <<11506, 11506, 1, 1>>, <<42560, 42604, 2, 1>>,
  <<42624, 42650, 2, 1>>, <<42786, 42798, 2, 1>>, <<42802, 42862, 2, 1>>, <<42873, 42875, 2, 1>>, <<42877, 42877, 1, -35332>>,
  <<42878, 42886, 2, 1>>, <<42891, 42891, 1, 1>>, <<42893, 42893, 1, -42280>>, <<42896, 42898, 2, 1>>, <<42902, 42920, 2, 1>>,
  <<42922, 42922, 1, -42308>>, <<42923, 42923, 1, -42319>>, <<42924, 42924, 1, -42315>>, <<42925, 42925, 1, -42305>>, <<42926, 42926, 1, -42308>>,
  <<42928, 42928, 1, -42258>>, <<42929, 42929, 1, -42282>>, <<42930, 42930, 1, -42261>>, <<42931, 42931, 1, 928>>, <<42932, 42946, 2, 1>>,
  <<42948, 42948, 1, -48>>, <<42949, 42949, 1, -42307>>, <<42950, 42950, 1, -35384>>, <<42951, 42953, 2, 1>>, <<42955, 42955, 1, -42343>>,
  <<42956, 42970, 2, 1>>, <<42972, 42972, 1, -42561>>, <<42997, 42997, 1, 1>>, <<65313, 65338, 1, 32>>, <<66560, 66599, 1, 40>>,
  <<66736, 66771, 1, 40>>, <<66928, 66938, 1, 39>>, <<66940, 66954, 1, 39>>, <<66956, 66962, 1, 39>>, <<66964, 66965, 1, 39>>,
  <<68736, 68786, 1, 64>>, <<68944, 68965, 1, 32>>, <<71840, 71871, 1, 32>>, <<93760, 93791, 1, 32>>, <<93856, 93880, 1, 27>>,
  <<125184, 125217, 1, 34>> }

\* the code points that are cased and not case-ignorable, as ranges <<first, last>>
CasedRanges == {
  <<65, 90>>, <<97, 122>>, <<170, 170>>, <<181, 181>>, <<186, 186>>, <<192, 214>>,
  <<216, 246>>, <<248, 442>>, <<444, 447>>, <<452, 659>>, <<662, 687>>, <<880, 883>>,
  <<886, 887>>, <<891, 893>>, <<895, 895>>, <<902, 902>>, <<904, 906>>, <<908, 908>>,
  <<910, 929>>, <<931, 1013>>, <<1015, 1153>>, <<1162, 1327>>, <<1329, 1366>>, <<1376, 1416>>,
  <<4256, 4293>>, <<4295, 4295>>, <<4301, 4301>>, <<4304, 4346>>, <<4349, 4351>>, <<5024, 5109>>,
  <<5112, 5117>>, <<7296, 7306>>, <<7312, 7354>>, <<7357, 7359>>, <<7424, 7467>>, <<7531, 7543>>,
  <<7545, 7578>>, <<7680, 7957>>, <<7960, 7965>>, <<7968, 8005>>, <<8008, 8013>>, <<8016, 8023>>,
  <<8025, 8025>>, <<8027, 8027>>, <<8029, 8029>>, <<8031, 8061>>, <<8064, 8116>>, <<8118, 8124>>,
  <<8126, 8126>>, <<8130, 8132>>, <<8134, 8140>>, <<8144, 8147>>, <<8150, 8155>>, <<8160, 8172>>,
  <<8178, 8180>>, <<8182, 8188>>, <<8450, 8450>>, <<8455, 8455>>, <<8458, 8467>>, <<8469, 8469>>,
  <<8473, 8477>>, <<8484, 8484>>, <<8486, 8486>>, <<8488, 8488>>, <<8490, 8493>>, <<8495, 8500>>,
  <<8505, 8505>>, <<8508, 8511>>, <<8517, 8521>>, <<8526, 8526>>, <<8544, 8575>>, <<8579, 8580>>,
  <<9398, 9449>>, <<11264, 11387>>, <<11390, 11492>>, <<11499, 11502>>, <<11506, 11507>>, <<11520, 11557>>,
  <<11559, 11559>>, <<11565, 11565>>, <<42560, 42605>>, <<42624, 42651>>, <<42786, 42863>>, <<42865, 42887>>,
  <<42891, 42894>>, <<42896, 42972>>, <<42997, 42998>>, <<43002, 43002>>, <<43824, 43866>>, <<43872, 43880>>,
  <<43888, 43967>>, <<64256, 64262>>, <<64275, 64279>>, <<65313, 65338>>, <<65345, 65370>>, <<66560, 66639>>,
  <<66736, 66771>>, <<66776, 66811>>, <<66928, 66938>>, <<66940, 66954>>, <<66956, 66962>>, <<66964, 66965>>,
  <<66967, 66977>>, <<66979, 66993>>, <<66995, 67001>>, <<67003, 67004>>, <<68736, 68786>>, <<68800, 68850>>,
  <<68944, 68965>>, <<68976, 68997>>, <<71840, 71903>>, <<93760, 93823>>, <<93856, 93880>>, <<93883, 93907>>,
  <<119808, 119892>>, <<119894, 119964>>, <<119966, 119967>>, <<119970, 119970>>, <<119973, 119974>>, <<119977, 119980>>,
  <<119982, 119993>>, <<119995, 119995>>, <<119997, 120003>>, <<120005, 120069>>, <<120071, 120074>>, <<120077, 120084>>,
  <<120086, 120092>>, <<120094, 120121>>, <<120123, 120126>>, <<120128, 120132>>, <<120134, 120134>>, <<120138, 120144>>,
  <<120146, 120485>>, <<120488, 120512>>, <<120514, 120538>>, <<120540, 120570>>, <<120572, 120596>>, <<120598, 120628>>,
  <<120630, 120654>>, <<120656, 120686>>, <<120688, 120712>>, <<120714, 120744>>, <<120746, 120770>>, <<120772, 120779>>,
  <<122624, 122633>>, <<122635, 122654>>, <<122661, 122666>>, <<125184, 125251>>, <<127280, 127305>>, <<127312, 127337>>,
  <<127344, 127369>> }

\* the case-ignorable code points, as ranges <<first, last>>
CaseIgnorableRanges == {
  <<39, 39>>, <<46, 46>>, <<58, 58>>, <<94, 94>>, <<96, 96>>, <<168, 168>>,
  <<173, 173>>, <<175, 175>>, <<180, 180>>, <<183, 184>>, <<688, 879>>, <<884, 885>>,
  <<890, 890>>, <<900, 901>>, <<903, 903>>, <<1155, 1161>>, <<1369, 1369>>, <<1375, 1375>>,
  <<1425, 1469>>, <<1471, 1471>>, <<1473, 1474>>, <<1476, 1477>>, <<1479, 1479>>, <<1524, 1524>>,
  <<1536, 1541>>, <<1552, 1562>>, <<1564, 1564>>, <<1600, 1600>>, <<1611, 1631>>, <<1648, 1648>>,
  <<1750, 1757>>, <<1759, 1768>>, <<1770, 1773>>, <<1807, 1807>>, <<1809, 1809>>, <<1840, 1866>>,
  <<1958, 1968>>, <<2027, 2037>>, <<2042, 2042>>, <<2045, 2045>>, <<2070, 2093>>, <<2137, 2139>>,
  <<2184, 2184>>, <<2192, 2193>>, <<2199, 2207>>, <<2249, 2306>>, <<2362, 2362>>, <<2364, 2364>>,
  <<2369, 2376>>, <<2381, 2381>>, <<2385, 2391>>, <<2402, 2403>>, <<2417, 2417>>, <<2433, 2433>>,
  <<2492, 2492>>, <<2497, 2500>>, <<2509, 2509>>, <<2530, 2531>>, <<2558, 2558>>, <<2561, 2562>>,
  <<2620, 2620>>, <<2625, 2626>>, <<2631, 2632>>, <<2635, 2637>>, <<2641, 2641>>, <<2672, 2673>>,
  <<2677, 2677>>, <<2689, 2690>>, <<2748, 2748>>, <<2753, 2757>>, <<2759, 2760>>, <<2765, 2765>>,
  <<2786, 2787>>, <<2810, 2815>>, <<2817, 2817>>, <<2876, 2876>>, <<2879, 2879>>, <<2881, 2884>>,
  <<2893, 2893>>, <<2901, 2902>>, <<2914, 2915>>, <<2946, 2946>>, <<3008, 3008>>, <<3021, 3021>>,
  <<3072, 3072>>, <<3076, 3076>>, <<3132, 3132>>, <<3134, 3136>>, <<3142, 3144>>, <<3146, 3149>>,
  <<3157, 3158>>, <<3170, 3171>>, <<3201, 3201>>, <<3260, 3260>>, <<3263, 3263>>, <<3270, 3270>>,
  <<3276, 3277>>, <<3298, 3299>>, <<3328, 3329>>, <<3387, 3388>>, <<3393, 3396>>, <<3405, 3405>>,
  <<3426, 3427>>, <<3457, 3457>>, <<3530, 3530>>, <<3538, 3540>>, <<3542, 3542>>, <<3633, 3633>>,
  <<3636, 3642>>, <<3654, 3662>>, <<3761, 3761>>, <<3764, 3772>>, <<3782, 3782>>, <<3784, 3790>>,
  <<3864, 3865>>, <<3893, 3893>>, <<3895, 3895>>, <<3897, 3897>>, <<3953, 3966>>, <<3968, 3972>>,
  <<3974, 3975>>, <<3981, 3991>>, <<3993, 4028>>, <<4038, 4038>>, <<4141, 4144>>, <<4146, 4151>>,
  <<4153, 4154>>, <<4157, 4158>>, <<4184, 4185>>, <<4190, 4192>>, <<4209, 4212>>, <<4226, 4226>>,
  <<4229, 4230>>, <<4237, 4237>>, <<4253, 4253>>, <<4348, 4348>>, <<4957, 4959>>, <<5906, 5908>>,
  <<5938, 5939>>, <<5970, 5971>>, <<6002, 6003>>, <<6068, 6069>>, <<6071, 6077>>, <<6086, 6086>>,
  <<6089, 6099>>, <<6103, 6103>>, <<6109, 6109>>, <<6155, 6159>>, <<6211, 6211>>, <<6277, 6278>>,
  <<6313, 6313>>, <<6432, 6434>>, <<6439, 6440>>, <<6450, 6450>>, <<6457, 6459>>, <<6679, 6680>>,
  <<6683, 6683>>, <<6742, 6742>>, <<6744, 6750>>, <<6752, 6752>>, <<6754, 6754>>, <<6757, 6764>>,
  <<6771, 6780>>, <<6783, 6783>>, <<6823, 6823>>, <<6832, 6877>>, <<6880, 6891>>, <<6912, 6915>>,
  <<6964, 6964>>, <<6966, 6970>>, <<6972, 6972>>, <<6978, 6978>>, <<7019, 7027>>, <<7040, 7041>>,
  <<7074, 7077>>, <<7080, 7081>>, <<7083, 7085>>, <<7142, 7142>>, <<7144, 7145>>, <<7149, 7149>>,
  <<7151, 7153>>, <<7212, 7219>>, <<7222, 7223>>, <<7288, 7293>>, <<7376, 7378>>, <<7380, 7392>>,
  <<7394, 7400>>, <<7405, 7405>>, <<7412, 7412>>, <<7416, 7417>>, <<7468, 7530>>, <<7544, 7544>>,
  <<7579, 7679>>, <<8125, 8125>>, <<8127, 8129>>, <<8141, 8143>>, <<8157, 8159>>, <<8173, 8175>>,
  <<8189, 8190>>, <<8203, 8207>>, <<8216, 8217>>, <<8228, 8228>>, <<8231, 8231>>, <<8234, 8238>>,
  <<8288, 8292>>, <<8294, 8303>>, <<8305, 8305>>, <<8319, 8319>>, <<8336, 8348>>, <<8400, 8432>>,
  <<11388, 11389>>, <<11503, 11505>>, <<11631, 11631>>, <<11647, 11647>>, <<11744, 11775>>, <<11823, 11823>>,
  <<12293, 12293>>, <<12330, 12333>>, <<12337, 12341>>, <<12347, 12347>>, <<12441, 12446>>, <<12540, 12542>>,
  <<40981, 40981>>, <<42232, 42237>>, <<42508, 42508>>, <<42607, 42610>>, <<42612, 42621>>, <<42623, 42623>>,
  <<42652, 42655>>, <<42736, 42737>>, <<42752, 42785>>, <<42864, 42864>>, <<42888, 42890>>, <<42993, 42996>>,
  <<43000, 43001>>, <<43010, 43010>>, <<43014, 43014>>, <<43019, 43019>>, <<43045, 43046>>, <<43052, 43052>>,
  <<43204, 43205>>, <<43232, 43249>>, <<43263, 43263>>, <<43302, 43309>>, <<43335, 43345>>, <<43392, 43394>>,
  <<43443, 43443>>, <<43446, 43449>>, <<43452, 43453>>, <<43471, 43471>>, <<43493, 43494>>, <<43561, 43566>>,
  <<43569, 43570>>, <<43573, 43574>>, <<43587, 43587>>, <<43596, 43596>>, <<43632, 43632>>, <<43644, 43644>>,
  <<43696, 43696>>, <<43698, 43700>>, <<43703, 43704>>, <<43710, 43711>>, <<43713, 43713>>, <<43741, 43741>>,
  <<43756, 43757>>, <<43763, 43764>>, <<43766, 43766>>, <<43867, 43871>>, <<43881, 43883>>, <<44005, 44005>>,
  <<44008, 44008>>, <<44013, 44013>>, <<64286, 64286>>, <<64434, 64450>>, <<65024, 65039>>, <<65043, 65043>>,
  <<65056, 65071>>, <<65106, 65106>>, <<65109, 65109>>, <<65279, 65279>>, <<65287, 65287>>, <<65294, 65294>>,
  <<65306, 65306>>, <<65342, 65342>>, <<65344, 65344>>, <<65392, 65392>>, <<65438, 65439>>, <<65507, 65507>>,
  <<65529, 65531>>, <<66045, 66045>>, <<66272, 66272>>, <<66422, 66426>>, <<67456, 67461>>, <<67463, 67504>>,
  <<67506, 67514>>, <<68097, 68099>>, <<68101, 68102>>, <<68108, 68111>>, <<68152, 68154>>, <<68159, 68159>>,
  <<68325, 68326>>, <<68900, 68903>>, <<68942, 68942>>, <<68969, 68973>>, <<68975, 68975>>, <<69291, 69292>>,
  <<69317, 69317>>, <<69370, 69375>>, <<69446, 69456>>, <<69506, 69509>>, <<69633, 69633>>, <<69688, 69702>>,
  <<69744, 69744>>, <<69747, 69748>>, <<69759, 69761>>, <<69811, 69814>>, <<69817, 69818>>, <<69821, 69821>>,
  <<69826, 69826>>, <<69837, 69837>>, <<69888, 69890>>, <<69927, 69931>>, <<69933, 69940>>, <<70003, 70003>>,
  <<70016, 70017>>, <<70070, 70078>>, <<70089, 70092>>, <<70095, 70095>>, <<70191, 70193>>, <<70196, 70196>>,
  <<70198, 70199>>, <<70206, 70206>>, <<70209, 70209>>, <<70367, 70367>>, <<70371, 70378>>, <<70400, 70401>>,
  <<70459, 70460>>, <<70464, 70464>>, <<70502, 70508>>, <<70512, 70516>>, <<70587, 70592>>, <<70606, 70606>>,
  <<70608, 70608>>, <<70610, 70610>>, <<70625, 70626>>, <<70712, 70719>>, <<70722, 70724>>, <<70726, 70726>>,
  <<70750, 70750>>, <<70835, 70840>>, <<70842, 70842>>, <<70847, 70848>>, <<70850, 70851>>, <<71090, 71093>>,
  <<71100, 71101>>, <<71103, 71104>>, <<71132, 71133>>, <<71219, 71226>>, <<71229, 71229>>, <<71231, 71232>>,
  <<71339, 71339>>, <<71341, 71341>>, <<71344, 71349>>, <<71351, 71351>>, <<71453, 71453>>, <<71455, 71455>>,
  <<71458, 71461>>, <<71463, 71467>>, <<71727, 71735>>, <<71737, 71738>>, <<71995, 71996>>, <<71998, 71998>>,
  <<72003, 72003>>, <<72148, 72151>>, <<72154, 72155>>, <<72160, 72160>>, <<72193, 72202>>, <<72243, 72248>>,
  <<72251, 72254>>, <<72263, 72263>>, <<72273, 72278>>, <<72281, 72283>>, <<72330, 72342>>, <<72344, 72345>>,
  <<72544, 72544>>, <<72546, 72548>>, <<72550, 72550>>, <<72752, 72758>>, <<72760, 72765>>, <<72767, 72767>>,
  <<72850, 72871>>, <<72874, 72880>>, <<72882, 72883>>, <<72885, 72886>>, <<73009, 73014>>, <<73018, 73018>>,
  <<73020, 73021>>, <<73023, 73029>>, <<73031, 73031>>, <<73104, 73105>>, <<73109, 73109>>, <<73111, 73111>>,
  <<73177, 73177>>, <<73459, 73460>>, <<73472, 73473>>, <<73526, 73530>>, <<73536, 73536>>, <<73538, 73538>>,
  <<73562, 73562>>, <<78896, 78912>>, <<78919, 78933>>, <<90398, 90409>>, <<90413, 90415>>, <<92912, 92916>>,
  <<92976, 92982>>, <<92992, 92995>>, <<93504, 93506>>, <<93547, 93548>>, <<94031, 94031>>, <<94095, 94111>>,
  <<94176, 94177>>, <<94179, 94180>>, <<94194, 94195>>, <<110576, 110579>>, <<110581, 110587>>, <<110589, 110590>>,
  <<113821, 113822>>, <<113824, 113827>>, <<118528, 118573>>, <<118576, 118598>>, <<119143, 119145>>, <<119155, 119170>>,
  <<119173, 119179>>, <<119210, 119213>>, <<119362, 119364>>, <<121344, 121398>>, <<121403, 121452>>, <<121461, 121461>>,
  <<121476, 121476>>, <<121499, 121503>>, <<121505, 121519>>, <<122880, 122886>>, <<122888, 122904>>, <<122907, 122913>>,
  <<122915, 122916>>, <<122918, 122922>>, <<122928, 122989>>, <<123023, 123023>>, <<123184, 123197>>, <<123566, 123566>>,
  <<123628, 123631>>, <<124139, 124143>>, <<124398, 124399>>, <<124643, 124643>>, <<124646, 124646>>, <<124654, 124655>>,
  <<124661, 124661>>, <<124671, 124671>>, <<125136, 125142>>, <<125252, 125259>>, <<127995, 127999>>, <<917505, 917505>>,
  <<917536, 917631>>, <<917760, 917999>> }

InRanges(v, ranges) == \E r \in ranges : r[1] <= v /\ v <= r[2]

\* the lower-case form of one code point on its own
LowerCodePoint(v) ==
  LET hits == {r \in LowerCaseRules : r[1] <= v /\ v <= r[2] /\ (v - r[1]) % r[3] = 0}
  IN  IF hits = {} THEN v ELSE v + (CHOOSE r \in hits : TRUE)[4]

\* the capital sigma at position k ends a word: a cased letter comes before it and
\* none after it, case-ignorable code points skipped
FinalSigma(cps, k) ==
  /\ \E j \in 1..(k - 1) :
        /\ InRanges(cps[j], CasedRanges)
        /\ \A m \in (j + 1)..(k - 1) : InRanges(cps[m], CaseIgnorableRanges)
  /\ ~\E j \in (k + 1)..Len(cps) :
        /\ InRanges(cps[j], CasedRanges)
        /\ \A m \in (k + 1)..(j - 1) : InRanges(cps[m], CaseIgnorableRanges)

\* the lower-case form of t by code points: U+0130 becomes i and U+0307, a capital
\* sigma becomes the final or the medial small sigma
LowerCodePoints(cps) ==
  LET First(k) == IF cps[k] = 304 THEN 105
                  ELSE IF cps[k] = 931 THEN (IF FinalSigma(cps, k) THEN 962 ELSE 963)
                  ELSE LowerCodePoint(cps[k])
      both == [j \in 1..(2 * Len(cps)) |->
                 IF j % 2 = 1 THEN First((j + 1) \div 2)
                 ELSE IF cps[j \div 2] = 304 THEN 775 ELSE -1]
  IN  SelectSeq(both, LAMBDA v : v # -1)

(***************************************************************************)
(* String methods of JavaScript, on texts.                                 *)
(***************************************************************************)
toLowerCase(t) ==
  IF \A i \in 1..Len(t) : ~IsNamedUnit(t[i])
  THEN [i \in 1..Len(t) |-> IF t[i] \in UpperLetters THEN LowerMap[t[i]] ELSE t[i]]
  ELSE UnitsOf(LowerCodePoints(CodePoints(t)))

\* t.replace(/[class]/g, '')
RemoveChars(t, class) == SelectSeq(t, LAMBDA c : c \notin class)

\* t.replace(/[^class]/g, '')
KeepChars(t, class) == SelectSeq(t, LAMBDA c : c \in class)

\* the positions of t that satisfy Keep, in increasing order
Positions(t, Keep(_)) == SelectSeq([i \in 1..Len(t) |-> i], Keep)

\* t.replace(/\s+/g, ' '): every run of whitespace becomes one space
CollapseWhitespace(t) ==
  LET RunStart(i) == ~(t[i] \in Whitespace /\ i > 1 /\ t[i-1] \in Whitespace)
      kept == Positions(t, RunStart)
  IN  [k \in 1..Len(kept) |-> IF t[kept[k]] \in Whitespace THEN " " ELSE t[kept[k]]]

\* t.split(c) for a one-character separator: the pieces, empty ones included
SplitOn(t, seps) ==
  LET IsSeparator(i) == t[i] \in seps
      at == Positions(t, IsSeparator)
      From(k) == IF k = 1 THEN 1 ELSE at[k-1] + 1
      To(k) == IF k = Len(at) + 1 THEN Len(t) ELSE at[k] - 1
  IN  [k \in 1..(Len(at) + 1) |-> SubSeq(t, From(k), To(k))]

\* t.split(/\s+/)
SplitWhitespace(t) == SplitOn(CollapseWhitespace(t), {" "})

\* words.slice(0, n)
Take(s, n) == SubSeq(s, 1, IF Len(s) < n THEN Len(s) ELSE n)

\* words.join(' ')
JoinSpace(words) ==
  LET F[i \in 0..Len(words)] ==
        IF i = 0 THEN <<>>
        ELSE IF i = 1 THEN words[1]
        ELSE F[i-1] \o <<" ">> \o words[i]
  IN  F[Len(words)]

\* t.includes(p)
Includes(t, p) == \E i \in 0..(Len(t) - Len(p)) : SubSeq(t, i + 1, i + Len(p)) = p

startsWith(t, p) == Len(p) <= Len(t) /\ SubSeq(t, 1, Len(p)) = p

endsWith(t, p) == Len(p) <= Len(t) /\ SubSeq(t, Len(t) - Len(p) + 1, Len(t)) = p

\* the index of the first unit of t, from i on, that is not in class (Len(t)+1 if none)
RECURSIVE SkipForward(_, _, _)
SkipForward(t, class, i) ==
  IF i <= Len(t) /\ t[i] \in class THEN SkipForward(t, class, i + 1) ELSE i

\* the index of the last unit of t, up to i, that is not in class (0 if none)
RECURSIVE SkipBackward(_, _, _)
SkipBackward(t, class, i) ==
  IF i >= 1 /\ t[i] \in class THEN SkipBackward(t, class, i - 1) ELSE i

\* t.trim()
trim(t) ==
  LET a == SkipForward(t, Whitespace, 1)
      b == SkipBackward(t, Whitespace, Len(t))
  IN  IF a > b THEN <<>> ELSE SubSeq(t, a, b)

\* t.replace(/p/g, r) for a literal, non-empty p: leftmost matches, not overlapping
RECURSIVE ReplaceFrom(_, _, _, _)
ReplaceFrom(t, p, r, i) ==
  LET matches == {m \in i..(Len(t) - Len(p) + 1) : SubSeq(t, m, m + Len(p) - 1) = p}
  IN  IF matches = {} THEN SubSeq(t, i, Len(t))
      ELSE LET m == CHOOSE x \in matches : \A y \in matches : x <= y
           IN  SubSeq(t, i, m - 1) \o r \o ReplaceFrom(t, p, r, m + Len(p))

ReplaceAll(t, p, r) == ReplaceFrom(t, p, r, 1)

\* the longer of the two questions, the second on a tie (q1.length > q2.length ? q1 : q2)
LongerOf(question1, question2) ==
  IF Len(question1) > Len(question2) THEN question1 ELSE question2

(***************************************************************************)
(* Scores are JavaScript numbers: IEEE 754 double-precision values, every  *)
(* operation rounded to the nearest value, ties to the even significand.   *)
(* A positive number is [e, hi, lo]: its significand of 53 bits is         *)
(* hi * 2^26 + lo with 2^26 <= hi < 2^27 and 0 <= lo < 2^26, and its value *)
(* is (hi * 2^26 + lo) * 2^(e - 52).  Zero is [e |-> 0, hi |-> 0, lo |-> 0]. *)
(* While an operation rounds, g holds the three bits below the significand *)
(* and sticky tells whether any lower bit is set.                          *)
(***************************************************************************)
ZeroScore == [e |-> 0, hi |-> 0, lo |-> 0]

Limb == 67108864

\* the number n as a double, for whole n from 0 to 2^26
DoubleOf(n) ==
  IF n = 0 THEN ZeroScore
  ELSE LET e == CHOOSE k \in 0..26 : 2^k <= n /\ n < 2 * 2^k
       IN  [e |-> e, hi |-> n * 2^(26 - e), lo |-> 0]

\* one bit to the right
ShiftRightOnce(w) ==
  [hi |-> w.hi \div 2,
   lo |-> (w.lo \div 2) + (w.hi % 2) * (Limb \div 2),
   g  |-> (w.g \div 2) + (w.lo % 2) * 4,
   sticky |-> w.sticky \/ w.g % 2 = 1]

RECURSIVE ShiftRight(_, _)
ShiftRight(w, d) == IF d = 0 THEN w ELSE ShiftRight(ShiftRightOnce(w), d - 1)

\* round to nearest, ties to even: w is [hi, lo, g, sticky] with 2^26 <= hi < 2^27
RoundToDouble(e, w) ==
  LET up == w.g > 4 \/ (w.g = 4 /\ (w.sticky \/ w.lo % 2 = 1))
      lo1 == IF up THEN w.lo + 1 ELSE w.lo
      hi1 == IF lo1 = Limb THEN w.hi + 1 ELSE w.hi
  IN  IF hi1 = 2 * Limb
      THEN [e |-> e + 1, hi |-> Limb, lo |-> 0]
      ELSE [e |-> e, hi |-> hi1, lo |-> lo1 % Limb]

\* a + b for doubles that are not negative
DoubleAdd(a, b) ==
  IF a.hi = 0 THEN b
  ELSE IF b.hi = 0 THEN a
  ELSE LET x == IF a.e >= b.e THEN a ELSE b
           y == IF a.e >= b.e THEN b ELSE a
           d == IF x.e - y.e > 56 THEN 56 ELSE x.e - y.e
           s == ShiftRight([hi |-> y.hi, lo |-> y.lo, g |-> 0, sticky |-> FALSE], d)
           lo == x.lo + s.lo
           sum == [hi |-> x.hi + s.hi + (lo \div Limb), lo |-> lo % Limb,
                   g |-> s.g, sticky |-> s.sticky]
       IN  IF sum.hi >= 2 * Limb
           THEN RoundToDouble(x.e + 1, ShiftRightOnce(sum))
           ELSE RoundToDouble(x.e, sum)

\* k / d for whole numbers 0 <= k < 2^15 and 0 < d < 2^15
DoubleDivide(k, d) ==
  IF k = 0 THEN ZeroScore
  ELSE LET e == IF k >= d
                THEN CHOOSE j \in 0..15 : 2^j * d <= k /\ k < 2 * 2^j * d
                ELSE 0 - (CHOOSE j \in 1..15 : 2^j * k >= d /\ 2^(j-1) * k < d)
           n0 == IF e < 0 THEN k * 2^(0 - e) ELSE k
           d0 == IF e < 0 THEN d ELSE d * 2^e
           r0 == n0 - d0
           q1 == (r0 * 8192) \div d0
           r1 == (r0 * 8192) % d0
           q2 == (r1 * 8192) \div d0
           r2 == (r1 * 8192) % d0
           q3 == (r2 * 8192) \div d0
           r3 == (r2 * 8192) % d0
           q4 == (r3 * 8192) \div d0
           r4 == (r3 * 8192) % d0
       IN  RoundToDouble(e, [hi |-> Limb + q1 * 8192 + q2, lo |-> q3 * 8192 + q4,
                             g |-> (r4 * 8) \div d0, sticky |-> (r4 * 8) % d0 # 0])

\* x * 20 for a double x that is not negative: five times the significand, rounded,
\* and two more in the exponent
DoubleTimes20(x) ==
  IF x.hi = 0 THEN ZeroScore
  ELSE LET lo5 == x.lo * 5
           p == [hi |-> x.hi * 5 + (lo5 \div Limb), lo |-> lo5 % Limb,
                 g |-> 0, sticky |-> FALSE]
           s == IF p.hi >= 8 * Limb THEN 3 ELSE 2
       IN  RoundToDouble(x.e + 2 + s, ShiftRight(p, s))

ScoreLess(a, b) ==
  IF a.hi = 0 THEN b.hi # 0
  ELSE IF b.hi = 0 THEN FALSE
  ELSE \/ a.e < b.e
       \/ a.e = b.e /\ a.hi < b.hi
       \/ a.e = b.e /\ a.hi = b.hi /\ a.lo < b.lo

ScoreEqual(a, b) == a = b

ScoreAtLeast(s, k) == ~ScoreLess(s, DoubleOf(k))

ScorePositive(s) == s.hi # 0

(***************************************************************************)
(* calculateQuestionSimilarity (part_000:499-639).  A question is a record *)
(* [question, category]; an absent or empty field is the empty text.       *)
(***************************************************************************)
TextSet(strings) == {Chars(s) : s \in strings}

stopWords == TextSet({
    "what", "how", "when", "where", "which", "who", "why", "does", "do", "are", "is",
    "the", "a", "an", "in", "on", "at", "to", "for", "with", "by", "of", "and", "or",
    "but", "if", "then", "else", "your", "their", "our", "its", "this", "that",
    "these", "those", "have", "has", "had", "can", "could", "will", "would", "should",
    "shall", "may", "might", "must", "need", "needs", "required", "requires"})

\* the nine groups, in the order Object.entries walks them
semanticGroups == <<
  TextSet({"board", "committee", "director", "oversight", "supervision", "monitoring",
           "control", "governance", "management", "leadership"}),
  TextSet({"risk", "compliance", "audit", "review", "assessment", "evaluation", "check",
           "verify", "validate", "assure", "assurance"}),
  TextSet({"environmental", "environment", "climate", "emission", "carbon", "pollution",
           "waste", "resource", "energy", "water"}),
  TextSet({"social", "community", "stakeholder", "employee", "labor", "human", "rights",
           "diversity", "inclusion", "safety", "health"}),
  TextSet({"process", "procedure", "system", "framework", "standard", "guideline",
           "policy", "practice", "implementation", "execution"}),
  TextSet({"performance", "measure", "metric", "indicator", "target", "goal", "objective",
           "outcome", "result", "impact", "effect"}),
  TextSet({"address", "implement", "take", "ensure", "establish", "develop", "create",
           "maintain", "improve", "enhance", "strengthen"}),
  TextSet({"deficiency", "issue", "problem", "gap", "weakness", "shortcoming", "failure",
           "noncompliance", "violation", "breach"}),
  TextSet({"report", "disclose", "disclosure", "transparency", "communication", "inform",
           "document", "record", "track", "monitor"}) >>

questionPatterns == <<
  <<Chars("how"), Chars("does"), Chars("ensure")>>,
  <<Chars("what"), Chars("measures"), Chars("taken")>>,
  <<Chars("how"), Chars("do"), Chars("you")>>,
  <<Chars("what"), Chars("processes"), Chars("place")>>,
  <<Chars("how"), Chars("are"), Chars("you")>>,
  <<Chars("what"), Chars("steps"), Chars("taken")>>,
  <<Chars("how"), Chars("does"), Chars("your")>>,
  <<Chars("what"), Chars("mechanisms"), Chars("place")>> >>

MIN_SIMILARITY_THRESHOLD == 10

CategoryWeight == 8

StructureWeight == 2

PatternWeight == 1

\* twice the weight of a matching word of a semantic group (2), of another matching
\* word (1), and of a group both questions touch with different words (1.5)
GroupWordWeight2 == 4

PlainWordWeight2 == 2

GroupBonusWeight2 == 3

\* q.toLowerCase().replace(/[.,\/#!$%\^&\*;:{}=\-_~()]/g,'').split(/\s+/).filter(...)
SimilarityWords(qText) ==
  SelectSeq(SplitWhitespace(RemoveChars(qText, StrippedPunctuation)),
            LAMBDA w : Len(w) > 3 /\ w \notin stopWords)

SeqRange(s) == {s[i] : i \in 1..Len(s)}

InSomeGroup(w) == \E g \in 1..Len(semanticGroups) : w \in semanticGroups[g]

\* the semanticMatches set after the first pass: the first group of each matching word
FirstPassGroups(matchingWords) ==
  {g \in 1..Len(semanticGroups) :
     \E w \in matchingWords :
        /\ w \in semanticGroups[g]
        /\ \A h \in 1..(g - 1) : w \notin semanticGroups[h]}

\* the groups the second pass pays the bonus for
SecondPassGroups(q1Words, q2Words, matchingWords) ==
  {g \in 1..Len(semanticGroups) :
     /\ semanticGroups[g] \cap q1Words # {}
     /\ semanticGroups[g] \cap q2Words # {}
     /\ g \notin FirstPassGroups(matchingWords)}

\* twice wordScore, for the words both questions have
MatchScore2(q1Words, q2Words, matchingWords) ==
    GroupWordWeight2 * Cardinality({w \in matchingWords : InSomeGroup(w)})
  + PlainWordWeight2 * Cardinality({w \in matchingWords : ~InSomeGroup(w)})
  + GroupBonusWeight2 * Cardinality(SecondPassGroups(q1Words, q2Words, matchingWords))

WordScore2(q1Words, q2Words) == MatchScore2(q1Words, q2Words, q1Words \cap q2Words)

CategoryMatch(q1, q2) ==
  /\ q1.category # <<>>
  /\ q2.category # <<>>
  /\ toLowerCase(q1.category) = toLowerCase(q2.category)

QuestionStructure(qText) == toLowerCase(JoinSpace(Take(SplitWhitespace(qText), 3)))

HasPattern(qText, pattern) == \A k \in 1..Len(pattern) : Includes(qText, pattern[k])

\* a pattern bonus that looks at the first question only
PatternMatchFirstOnly(q1Text, q2Text) ==
  \E p \in 1..Len(questionPatterns) : HasPattern(q1Text, questionPatterns[p])

PatternMatch(q1Text, q2Text) ==
  \E p \in 1..Len(questionPatterns) :
     HasPattern(q1Text, questionPatterns[p]) /\ HasPattern(q2Text, questionPatterns[p])

\* lines 503-506: similarityScore after the category
CategoryScore(q1, q2) ==
  IF CategoryMatch(q1, q2) THEN DoubleOf(CategoryWeight) ELSE ZeroScore

\* lines 602-605: similarityScore += (wordScore / totalUniqueWords) * 20, where
\* wordScore is half of WordScore2
ScoreOfWords(similarityScore, q1Words, q2Words, totalUniqueWords) ==
  IF totalUniqueWords > 0
  THEN DoubleAdd(similarityScore,
                 DoubleTimes20(DoubleDivide(WordScore2(q1Words, q2Words),
                                            2 * totalUniqueWords)))
  ELSE similarityScore

ScoreOfSets(similarityScore, q1Words, q2Words) ==
  ScoreOfWords(similarityScore, q1Words, q2Words, Cardinality(q1Words) + Cardinality(q2Words))

\* lines 608-612: similarityScore += 2 for the same first three words
StructureScore(similarityScore, q1Text, q2Text) ==
  IF QuestionStructure(q1Text) = QuestionStructure(q2Text)
  THEN DoubleAdd(similarityScore, DoubleOf(StructureWeight))
  ELSE similarityScore

\* lines 626-633: similarityScore += 1 for a pattern both questions hold
PatternScore(similarityScore, q1Text, q2Text) ==
  IF PatternMatch(q1Text, q2Text)
  THEN DoubleAdd(similarityScore, DoubleOf(PatternWeight))
  ELSE similarityScore

\* the additions in the order of the code: category, words, structure, pattern
ScoreOfTexts(q1, q2, q1Text, q2Text) ==
  PatternScore(
    StructureScore(
      ScoreOfSets(CategoryScore(q1, q2),
                  SeqRange(SimilarityWords(q1Text)), SeqRange(SimilarityWords(q2Text))),
      q1Text, q2Text),
    q1Text, q2Text)

\* the score before the threshold of line 636
RawSimilarity(q1, q2) ==
  ScoreOfTexts(q1, q2, toLowerCase(q1.question), toLowerCase(q2.question))

\* a score returned as it is, whatever the threshold
WithoutThreshold(similarityScore) == similarityScore

\* line 636
AboveThreshold(similarityScore) ==
  IF ScoreAtLeast(similarityScore, MIN_SIMILARITY_THRESHOLD)
  THEN similarityScore
  ELSE ZeroScore

calculateQuestionSimilarity(q1, q2) == AboveThreshold(RawSimilarity(q1, q2))

(***************************************************************************)
(* The twelve emoji glyphs (part_000:679, 714; openai.ts:286), as UTF-16   *)
(* code units.                                                             *)
(***************************************************************************)
validEmojis == <<
  <<"U+D83C", "U+DF1F">>,             \* U+1F31F glowing star
  <<"U+D83D", "U+DD04">>,             \* U+1F504 arrows
  <<"U+D83C", "U+DF31">>,             \* U+1F331 seedling
  <<"U+D83C", "U+DF0D">>,             \* U+1F30D globe
  <<"U+26A1">>,                       \* U+26A1 high voltage
  <<"U+D83D", "U+DCBC">>,             \* U+1F4BC briefcase
  <<"U+D83D", "U+DD0D">>,             \* U+1F50D magnifying glass
  <<"U+D83D", "U+DEE1", "U+FE0F">>,   \* U+1F6E1 shield, with variation selector 16
  <<"U+D83E", "U+DD1D">>,             \* U+1F91D handshake
  <<"U+D83D", "U+DCCA">>,             \* U+1F4CA bar chart
  <<"U+2696", "U+FE0F">>,             \* U+2696 scales, with variation selector 16
  <<"U+D83C", "U+DF10">> >>           \* U+1F310 globe with meridians

\* [\u{1F300}-\u{1F6FF}\u{1F900}-\u{1F9FF}\u{2600}-\u{26FF}\u{2700}-\u{27BF}]
InFormatClass(v) ==
  \/ v \in 127744..128767
  \/ v \in 129280..129535
  \/ v \in 9728..9983
  \/ v \in 9984..10175

\* /^[...] [A-Z]/u.test(t)
MatchesQuestionFormat(t) ==
  /\ Len(t) >= 1
  /\ LET cp == CodePointAt(t, 1)
     IN  /\ InFormatClass(cp.value)
         /\ Len(t) >= cp.width + 2
         /\ t[cp.width + 1] = " "
         /\ t[cp.width + 2] \in UpperLetters

(***************************************************************************)
(* lib/openai.ts: validateResponse, extractKeywords and                    *)
(* ensureFormattingRequirements.                                           *)
(***************************************************************************)
keywordStopwords == TextSet({"and", "the", "for", "with", "that", "this", "your", "have",
                             "from", "are", "does"})

\* split, keep the words longer than 3 that are no stopword, strip the punctuation,
\* drop what became empty
extractKeywords(text) ==
  LET words == SelectSeq(SplitWhitespace(text),
                         LAMBDA w : Len(w) > 3 /\ toLowerCase(w) \notin keywordStopwords)
      stripped == [i \in 1..Len(words) |-> RemoveChars(words[i], KeywordPunctuation)]
  IN  SelectSeq(stripped, LAMBDA w : w # <<>>)

HasKeywordFrom(text, question) ==
  \E k \in SeqRange(extractKeywords(question)) :
     Includes(toLowerCase(text), toLowerCase(k))

MinResponseLength == 10

validateResponse(text, question1, question2) ==
  /\ Len(text) >= MinResponseLength
  /\ Includes(text, <<"?">>)
  /\ ~(Includes(text, <<"<">>) /\ Includes(text, <<">">>))
  /\ ~Includes(text, Chars("[Listed Entity]"))
  /\ HasKeywordFrom(text, question1)
  /\ HasKeywordFrom(text, question2)

StartsWithValidEmoji(text) == \E e \in 1..Len(validEmojis) : startsWith(text, validEmojis[e])

\* ensureFormattingRequirements with randomEmoji the glyph Math.random picks
ensureFormattingRequirements(text, randomEmoji) ==
  LET prefixed == IF StartsWithValidEmoji(text)
                  THEN text
                  ELSE validEmojis[randomEmoji] \o <<" ">> \o text
  IN  IF endsWith(prefixed, <<"?">>)
      THEN prefixed
      ELSE SubSeq(prefixed, 1, SkipBackward(prefixed, {".", "!"}, Len(prefixed))) \o <<"?">>

(***************************************************************************)
(* JavaScript values and property reads.  A value is [type, value]; a      *)
(* function is named by where the realm holds it, as "Object.keys" is.     *)
(* The object literals of findThematicConnection inherit from              *)
(* Object.prototype, so a read of a name they do not hold finds what       *)
(* Object.prototype holds (ECMAScript 2023).                               *)
(***************************************************************************)
\* the digits of a whole number
RECURSIVE Decimal(_)
Decimal(n) ==
  IF n < 10 THEN <<SubSeq("0123456789", n + 1, n + 1)>>
  ELSE Decimal(n \div 10) \o <<SubSeq("0123456789", (n % 10) + 1, (n % 10) + 1)>>

Undefined == [type |-> "undefined", value |-> ""]

StringValue(s) == [type |-> "string", value |-> s]

\* the digits of a whole number, as one string
RECURSIVE NumberText(_)
NumberText(n) ==
  IF n < 10 THEN SubSeq("0123456789", n + 1, n + 1)
  ELSE NumberText(n \div 10) \o SubSeq("0123456789", (n % 10) + 1, (n % 10) + 1)

\* a whole number, held as its digits
NumberValue(n) == [type |-> "number", value |-> NumberText(n)]

FunctionValue(id) == [type |-> "function", value |-> id]

ObjectValue(id) == [type |-> "object", value |-> id]

\* a read that throws a TypeError
Throws == [type |-> "throw", value |-> "TypeError"]

\* the methods of Object.prototype, of Function.prototype and of Object, each with the
\* number of its parameters
ObjectPrototypeMethods == {
  <<"__defineGetter__", 2>>, <<"__defineSetter__", 2>>, <<"hasOwnProperty", 1>>,
  <<"__lookupGetter__", 1>>, <<"__lookupSetter__", 1>>, <<"isPrototypeOf", 1>>,
  <<"propertyIsEnumerable", 1>>, <<"toString", 0>>, <<"valueOf", 0>>,
  <<"toLocaleString", 0>> }

FunctionPrototypeMethods == { <<"apply", 2>>, <<"bind", 1>>, <<"call", 1>>, <<"toString", 0>> }

ObjectMethods == {
  <<"assign", 2>>, <<"create", 2>>, <<"defineProperties", 2>>, <<"defineProperty", 3>>,
  <<"entries", 1>>, <<"freeze", 1>>, <<"fromEntries", 1>>,
  <<"getOwnPropertyDescriptor", 2>>, <<"getOwnPropertyDescriptors", 1>>,
  <<"getOwnPropertyNames", 1>>, <<"getOwnPropertySymbols", 1>>, <<"getPrototypeOf", 1>>,
  <<"hasOwn", 2>>, <<"is", 2>>, <<"isExtensible", 1>>, <<"isFrozen", 1>>,
  <<"isSealed", 1>>, <<"keys", 1>>, <<"preventExtensions", 1>>, <<"seal", 1>>,
  <<"setPrototypeOf", 2>>, <<"values", 1>> }

\* the built-in functions a read can reach, as <<id, name, length>>
BuiltinFunctions ==
       {<<"Object", "Object", 1>>, <<"Function", "Function", 1>>,
        <<"Function.prototype", "", 0>>}
  \cup {<<"Object.prototype." \o m[1], m[1], m[2]>> : m \in ObjectPrototypeMethods}
  \cup {<<"Function.prototype." \o m[1], m[1], m[2]>> : m \in FunctionPrototypeMethods}
  \cup {<<"Object." \o m[1], m[1], m[2]>> : m \in ObjectMethods}

Builtin(id) == CHOOSE f \in BuiltinFunctions : f[1] = id

Holds(methods, key) == \E m \in methods : m[1] = key

\* what Object.prototype holds under key, __proto__ apart
FromObjectPrototype(key) ==
  IF key = "constructor" THEN FunctionValue("Object")
  ELSE IF Holds(ObjectPrototypeMethods, key) THEN FunctionValue("Object.prototype." \o key)
  ELSE Undefined

\* what a function finds under key on Function.prototype and above: caller and
\* arguments are accessors that throw for a built-in function
FromFunctionPrototype(key) ==
  IF key = "constructor" THEN FunctionValue("Function")
  ELSE IF Holds(FunctionPrototypeMethods, key) THEN FunctionValue("Function.prototype." \o key)
  ELSE IF key \in {"caller", "arguments"} THEN Throws
  ELSE IF key = "__proto__" THEN ObjectValue("Object.prototype")
  ELSE FromObjectPrototype(key)

\* v[key] for a built-in function or Object.prototype
Property(v, key) ==
  IF v = ObjectValue("Object.prototype")
  THEN IF key = "__proto__" THEN Undefined ELSE FromObjectPrototype(key)
  ELSE IF key = "length" THEN NumberValue(Builtin(v.value)[3])
  ELSE IF key = "name" THEN StringValue(Builtin(v.value)[2])
  ELSE IF v.value = "Function.prototype" THEN FromFunctionPrototype(key)
  ELSE IF key = "__proto__" THEN FunctionValue("Function.prototype")
  ELSE IF v.value = "Object" /\ key = "prototype" THEN ObjectValue("Object.prototype")
  ELSE IF v.value = "Object" /\ Holds(ObjectMethods, key) THEN FunctionValue("Object." \o key)
  ELSE IF v.value = "Function" /\ key = "prototype" THEN FunctionValue("Function.prototype")
  ELSE FromFunctionPrototype(key)

\* the value counts as true in a condition
Truthy(v) ==
  /\ v.type # "undefined"
  /\ v # StringValue("")
  /\ v # NumberValue(0)

\* the text a template literal makes of a value
TemplateText(v) ==
  IF v.type = "string" THEN Chars(v.value)
  ELSE IF v.type = "number" THEN Chars(v.value)
  ELSE IF v.type = "function"
  THEN Chars("function " \o Builtin(v.value)[2] \o "() { [native code] }")
  ELSE IF v.type = "object" THEN Chars("[object Object]")
  ELSE Chars("undefined")

(***************************************************************************)
(* The merge cache of lib/openai.ts: a Map, kept as the sequence of its    *)
(* entries in insertion order.                                             *)
(***************************************************************************)
\* a Question or null is a sequence of at most one Question; null is the empty one
Null == <<>>

CACHE_LIMIT == 100

\* the number as the template literal prints it: '' for 0 (similarityScore || ''),
\* else its digits, which differ for different numbers: the number stands for them
ScoreKey(s) ==
  IF s.hi = 0 THEN <<>> ELSE <<s.e, s.hi, s.lo>>

\* framework1|framework2|question1|question2|thematicConnection|similarityScore
CacheKey(framework1, framework2, question1, question2, thematicConnection, similarityScore) ==
  [text  |-> Chars(framework1) \o <<"|">> \o Chars(framework2) \o <<"|">> \o question1
             \o <<"|">> \o question2 \o <<"|">>
             \o (IF Truthy(thematicConnection) THEN TemplateText(thematicConnection) ELSE <<>>)
             \o <<"|">>,
   score |-> ScoreKey(similarityScore)]

CacheHas(cache, key) == \E i \in 1..Len(cache) : cache[i].key = key

CacheGet(cache, key) == cache[CHOOSE i \in 1..Len(cache) : cache[i].key = key].value

\* a cache that gives up its newest entry when it is full
CacheStoreEvictingNewest(cache, key, value) ==
  LET set == IF CacheHas(cache, key)
             THEN [i \in 1..Len(cache) |->
                     IF cache[i].key = key THEN [key |-> key, value |-> value] ELSE cache[i]]
             ELSE Append(cache, [key |-> key, value |-> value])
  IN  IF Len(set) > CACHE_LIMIT THEN SubSeq(set, 1, Len(set) - 1) ELSE set

\* questionCache.set(key, value), then the eviction of the first key above the limit
CacheStore(cache, key, value) ==
  LET set == IF CacheHas(cache, key)
             THEN [i \in 1..Len(cache) |->
                     IF cache[i].key = key THEN [key |-> key, value |-> value] ELSE cache[i]]
             ELSE Append(cache, [key |-> key, value |-> value])
  IN  IF Len(set) > CACHE_LIMIT THEN Tail(set) ELSE set

(***************************************************************************)
(* mergeQuestionsWithAI (openai.ts:29-151), cut at its two awaits.         *)
(* A service answer is [ok |-> TRUE, content |-> text] or [ok |-> FALSE]   *)
(* when the call throws.                                                   *)
(***************************************************************************)
\* normalizeQuestion (openai.ts:48-54, part_000:666-672)
normalizeQuestion(text) ==
  trim(CollapseWhitespace(RemoveChars(toLowerCase(text), StrippedPunctuation)))

\* the catch block (openai.ts:140-150)
MergeCatch(question1, question2) ==
  IF trim(toLowerCase(question1)) = trim(toLowerCase(question2))
  THEN question1
  ELSE LongerOf(question1, question2)

\* a merge that takes no pair as very similar
VerySimilarNever(similarityScore) == FALSE

\* the double nearest to 0.8
PointEight == [e |-> -1, hi |-> 107374182, lo |-> 26843546]

\* similarityScore && similarityScore > 0.8
VerySimilar(similarityScore) ==
  similarityScore.hi # 0 /\ ScoreLess(PointEight, similarityScore)

\* up to the first await: the text returned at once, or the primary call
MergeEntry(a, cache) ==
  LET key == CacheKey(a.framework1, a.framework2, a.question1, a.question2,
                      a.thematicConnection, a.similarityScore)
  IN  IF trim(a.question1) = <<>> \/ trim(a.question2) = <<>>
      THEN [kind |-> "return", text |-> MergeCatch(a.question1, a.question2)]
      ELSE IF trim(Chars(a.framework1)) = <<>> \/ trim(Chars(a.framework2)) = <<>>
      THEN [kind |-> "return", text |-> MergeCatch(a.question1, a.question2)]
      ELSE IF normalizeQuestion(a.question1) = normalizeQuestion(a.question2)
      THEN [kind |-> "return", text |-> a.question1]
      ELSE IF CacheHas(cache, key)
      THEN [kind |-> "return", text |-> CacheGet(cache, key)]
      ELSE [kind |-> "call", text |-> <<>>]

\* lines 127-139: format, store in the cache, return
MergeAccept(a, cache, mergedQuestion, randomEmoji) ==
  LET formatted == ensureFormattingRequirements(mergedQuestion, randomEmoji)
      key == CacheKey(a.framework1, a.framework2, a.question1, a.question2,
                      a.thematicConnection, a.similarityScore)
  IN  [kind |-> "return", text |-> formatted, cache |-> CacheStore(cache, key, formatted)]

\* from the answer of the primary call to the return or to the fallback call
MergeAfterPrimary(a, cache, answer, randomEmoji) ==
  IF ~answer.ok
  THEN [kind |-> "return", text |-> MergeCatch(a.question1, a.question2), cache |-> cache]
  ELSE LET mergedQuestion == trim(answer.content)
       IN  IF validateResponse(mergedQuestion, a.question1, a.question2)
           THEN MergeAccept(a, cache, mergedQuestion, randomEmoji)
           ELSE IF VerySimilar(a.similarityScore)
           THEN [kind |-> "return", text |-> LongerOf(a.question1, a.question2),
                 cache |-> cache]
           ELSE [kind |-> "call", text |-> <<>>, cache |-> cache]

\* generateFallbackQuestion returns '' when its call throws (openai.ts:247-250)
MergeAfterFallback(a, cache, answer, randomEmoji) ==
  LET fallbackResponse == IF answer.ok THEN trim(answer.content) ELSE <<>>
  IN  IF fallbackResponse # <<>> /\ validateResponse(fallbackResponse, a.question1, a.question2)
      THEN MergeAccept(a, cache, fallbackResponse, randomEmoji)
      ELSE [kind |-> "return", text |-> LongerOf(a.question1, a.question2), cache |-> cache]

(***************************************************************************)
(* createMergedQuestion (part_000:642-798).                                *)
(***************************************************************************)
\* text.split('\n')[0]
FirstLine(text) == SplitOn(text, {"\n"})[1]

\* the three literal repairs shared by cleanInput and the clean-up of the model output
LiteralRepairs(text) ==
  ReplaceAll(
    ReplaceAll(
      ReplaceAll(text, Chars("DIFFERENT_CONTEXT?"), <<>>),
      Chars("best practicesframework"), Chars("best practices/framework")),
    Chars("and/ or"), Chars("and/or"))

cleanInput(text) ==
  trim(LiteralRepairs(CollapseWhitespace(KeepChars(FirstLine(text), SafeChars))))

\* t.replace(/^[^a-zA-Z]*/, '')
StripLeading(t) == SubSeq(t, SkipForward(t, SeqRange(t) \ Letters, 1), Len(t))

\* t.replace(/[^a-zA-Z0-9\s\?\.\,\;\:\-\'\/]+$/, '')
StripTrailing(t) == SubSeq(t, 1, SkipBackward(t, SeqRange(t) \ TrailingAllowed, Len(t)))

\* lines 746-748
EnsureMark(t) ==
  IF ~endsWith(t, <<"?">>) /\ ~endsWith(t, <<".">>) THEN t \o <<"?">> ELSE t

\* t.charAt(0).toUpperCase() + t.slice(1)
Capitalize(t) ==
  IF t = <<>> THEN t
  ELSE IF t[1] \in LowerLetters THEN <<UpperMap[t[1]]>> \o Tail(t)
  ELSE t

\* lines 734-751: the clean-up of the model output, the terminal mark, the capital
CleanModelOutput(text) ==
  Capitalize(EnsureMark(trim(LiteralRepairs(StripTrailing(StripLeading(
    CollapseWhitespace(KeepChars(FirstLine(text), SafeChars))))))))

MinQuestionLength == 10

MaxQuestionLength == 500

\* a || b for two optional strings
OrElse(a, b) == IF a # <<>> THEN a ELSE b

\* the Question object of lines 682-705 and 787-797 (timestamp left out); origin is
\* not a field of the code: it names the candidate pair the question was built from
BuildQuestion(pair, index, emoji, text1, text2, finalText, generatedWithAI) ==
  [id |-> <<"q">> \o Decimal(index + 1),
   text |-> finalText,
   frameworks |-> <<pair.framework1, pair.framework2>>,
   originalQuestions |->
     << [text |-> text1, framework |-> pair.framework1,
         category |-> pair.question1.category,
         ref |-> OrElse(pair.question1.ref, pair.question1._id)],
        [text |-> text2, framework |-> pair.framework2,
         category |-> pair.question2.category,
         ref |-> OrElse(pair.question2.ref, pair.question2._id)] >>,
   emoji |-> validEmojis[emoji],
   category |-> OrElse(pair.question1.category, pair.question2.category),
   ref |-> Chars(pair.framework1) \o <<"-">> \o Chars(pair.framework2) \o <<"-">>
           \o Decimal(index),
   generatedWithAI |-> generatedWithAI,
   origin |-> pair.origin]

Text1(pair) == cleanInput(pair.question1.question)

Text2(pair) == cleanInput(pair.question2.question)

\* line 678
IdenticalAfterNormalization(pair) ==
  normalizeQuestion(Text1(pair)) = normalizeQuestion(Text2(pair))

\* a short-circuit that flags its question as generated
IdenticalQuestionAsGenerated(pair, index, emoji) ==
  <<BuildQuestion(pair, index, emoji, Text1(pair), Text2(pair),
                  validEmojis[emoji] \o <<" ">> \o Text1(pair), TRUE)>>

\* lines 679-705: the original question with an emoji, not flagged as generated
IdenticalQuestion(pair, index, emoji) ==
  <<BuildQuestion(pair, index, emoji, Text1(pair), Text2(pair),
                  validEmojis[emoji] \o <<" ">> \o Text1(pair), FALSE)>>

\* lines 709-712 and 720-727: the arguments of mergeQuestionsWithAI
MergeArguments(pair) ==
  [framework1 |-> pair.framework1,
   framework2 |-> pair.framework2,
   question1 |-> Text1(pair),
   question2 |-> Text2(pair),
   thematicConnection |-> pair.thematicConnection,
   similarityScore |->
     calculateQuestionSimilarity(
       [question |-> Text1(pair), category |-> pair.question1.category],
       [question |-> Text2(pair), category |-> pair.question2.category])]

\* the try block of lines 717-764, given how the race of line 719 ended: with the text
\* mergeQuestionsWithAI resolved to, or with the rejection of the timer
TimedOut == [kind |-> "timeout", text |-> <<>>]

Resolved(text) == [kind |-> "text", text |-> text]

\* the race of line 719 has not ended, or was never run
NoRace == [kind |-> "none", text |-> <<>>]

\* a createMergedQuestion that checks the format of its text and not its length
CheckedQuestionOfAnyLength(pair, index, emoji, finalText) ==
  IF ~MatchesQuestionFormat(finalText)
  THEN [threw |-> TRUE, error |-> "Invalid question format", value |-> Null]
  ELSE [threw |-> FALSE, error |-> "",
        value |-> <<BuildQuestion(pair, index, emoji, Text1(pair), Text2(pair),
                                  finalText, TRUE)>>]

\* lines 757-764 and 787-797, for the text of line 754
CheckedQuestion(pair, index, emoji, finalText) ==
  IF Len(finalText) < MinQuestionLength \/ Len(finalText) > MaxQuestionLength
  THEN [threw |-> TRUE, error |-> "Invalid question length", value |-> Null]
  ELSE IF ~MatchesQuestionFormat(finalText)
  THEN [threw |-> TRUE, error |-> "Invalid question format", value |-> Null]
  ELSE [threw |-> FALSE, error |-> "",
        value |-> <<BuildQuestion(pair, index, emoji, Text1(pair), Text2(pair),
                                  finalText, TRUE)>>]

TryMerge(pair, index, emoji, race) ==
  IF race.kind = "timeout"
  THEN [threw |-> TRUE, error |-> "Timeout", value |-> Null]
  ELSE CheckedQuestion(pair, index, emoji,
                       validEmojis[emoji] \o <<" ">> \o CleanModelOutput(race.text))

\* a createMergedQuestion without its catch: what the try block throws rejects the promise
RethrowMerge(try) ==
  IF try.threw
  THEN [settle |-> "rejected", value |-> Null]
  ELSE [settle |-> "resolved", value |-> try.value]

\* the catch of lines 766-769 and the return of lines 787-797: how the promise of
\* createMergedQuestion settles
CatchMerge(try) ==
  IF try.threw
  THEN [settle |-> "resolved", value |-> Null]
  ELSE [settle |-> "resolved", value |-> try.value]

(***************************************************************************)
(* The framework document /prism.frameworks.json and its loaders           *)
(* (part_000:75-116).                                                      *)
(***************************************************************************)
RawQuestion(question, category, ref, oid) ==
  [question |-> Chars(question), category |-> Chars(category), ref |-> Chars(ref),
   _id |-> Chars(oid)]

Document == <<
  [name |-> "TCFD",
   description |-> "Climate-related financial risk disclosure",
   questions |-> <<
     RawQuestion("How does your organization manage climate risk?", "Risk", "TCFD-1", ""),
     RawQuestion("Describe the board oversight of climate policy.", "Governance", "", "t2") >>],
  [name |-> "GRI Standards",
   description |-> "",
   questions |-> <<
     RawQuestion("How does your company manage climate risk exposure?", "risk", "GRI-1", ""),
     RawQuestion("Describe the Board  oversight of climate policy.", "Governance", "GRI-2", "") >>],
  [name |-> "SASB",
   description |-> "",
   questions |-> <<
     RawQuestion("Report climate governance\nboard oversight policy", "", "", "s1") >>],
  [name |-> "Twin A",
   description |-> "",
   questions |-> << RawQuestion("What is your climate policy?", "", "A-1", "") >>],
  [name |-> "Twin B",
   description |-> "",
   questions |-> << RawQuestion("What is your climate policy?", "", "B-1", "") >>],
  [name |-> "Raw A",
   description |-> "",
   questions |-> << RawQuestion("What are your  Scope 1 (direct) emissions?", "", "A-2", "") >>],
  [name |-> "Raw B",
   description |-> "",
   questions |-> << RawQuestion("What are your  Scope 1 (direct) emissions?", "", "B-2", "") >>],
  [name |-> "Stop A",
   description |-> "",
   questions |-> << RawQuestion("Why is it so?", "", "A-3", "") >>],
  [name |-> "Stop B",
   description |-> "",
   questions |-> << RawQuestion("Why is it so?", "", "B-3", "") >>],
  [name |-> "Many A",
   description |-> "",
   questions |-> [n \in 1..5 |->
                    [question |-> Chars("Does the board review water risk in area ")
                                    \o Decimal(n) \o <<"?">>,
                     category |-> <<>>, ref |-> <<>>, _id |-> <<>>]]],
  [name |-> "Many B",
   description |-> "",
   questions |-> [n \in 1..5 |->
                    [question |-> Chars("Does the board review water risk at site ")
                                    \o Decimal(n) \o <<"?">>,
                     category |-> <<>>, ref |-> <<>>, _id |-> <<>>]]],
  [name |-> "Rows A",
   description |-> "",
   questions |-> <<
     RawQuestion("Does the board review water risk today?", "", "", "a1"),
     RawQuestion("Does the board review water risk daily?", "", "", "a2"),
     RawQuestion("What is your climate policy?", "", "", "a3"),
     RawQuestion("what is your climate policy?", "", "", "a4"),
     RawQuestion("What is your Climate policy?", "", "", "a5"),
     RawQuestion("Which suppliers passed the audit lately?", "", "", "a6"),
     RawQuestion("Which suppliers passed the audit early?", "", "", "a7") >>],
  [name |-> "Rows B",
   description |-> "",
   questions |-> <<
     RawQuestion("Does the board review water risk now?", "", "", "b1"),
     RawQuestion("What is your climate POLICY?", "", "", "b2"),
     RawQuestion("What is your climate policy?.", "", "", "b3"),
     RawQuestion("WHAT is your climate policy?", "", "", "b4"),
     RawQuestion("Which suppliers passed the audit today?", "", "", "b5") >>] >>

DocumentNames == {Document[i].name : i \in 1..Len(Document)}

Find(frameworkName) == CHOOSE i \in 1..Len(Document) : Document[i].name = frameworkName

\* [] when the fetch fails or the name is not in the document
getQuestionsForFramework(frameworkName, fetchOk) ==
  IF fetchOk /\ frameworkName \in DocumentNames
  THEN Document[Find(frameworkName)].questions
  ELSE <<>>

\* '' when the fetch fails or the name is not in the document
getFrameworkDescription(frameworkName, fetchOk) ==
  IF fetchOk /\ frameworkName \in DocumentNames
  THEN Document[Find(frameworkName)].description
  ELSE ""

(***************************************************************************)
(* findThematicConnection (part_000:294-368).                              *)
(***************************************************************************)
knownConnections == {
  <<"TCFD", "GRI Standards", "climate transparency and environmental reporting">>,
  <<"TCFD", "Science Based Targets", "science-based climate action and risk disclosure">>,
  <<"TCFD", "EU CSRD", "climate-related financial and sustainability disclosures">>,
  <<"TCFD", "SASB", "industry-specific climate risk assessment and disclosure">>,
  <<"GRI Standards", "SASB", "comprehensive sustainability reporting and material ESG disclosure">>,
  <<"GRI Standards", "UN Global Compact", "global sustainability principles and comprehensive reporting">>,
  <<"GRI Standards", "B Corp Assessment", "transparency in sustainability performance and stakeholder impact">>,
  <<"GRI Standards", "EU CSRD", "comprehensive sustainability reporting across global frameworks">>,
  <<"Integrated Reporting", "IIRC Framework", "holistic value creation and integrated thinking">>,
  <<"Integrated Reporting", "SASB", "material financial and non-financial information integration">>,
  <<"Integrated Reporting", "GRI Standards", "comprehensive and strategic sustainability disclosure">>,
  <<"IFC Listed Companies", "SASB", "robust governance and material risk disclosure">>,
  <<"IFC Listed Companies", "UN Global Compact", "governance structures and ethical business principles">> }

themeKeywords == <<"governance", "climate", "environmental", "social", "transparency",
                   "sustainability", "disclosure", "reporting", "risk", "stakeholder",
                   "value", "strategy", "performance", "impact", "ethical">>

defaultThemes == {
  <<"TCFD-GRI", "climate disclosure and sustainability reporting">>,
  <<"SASB-GRI", "material sustainability reporting">>,
  <<"UNGC-ISO26000", "social responsibility principles">>,
  <<"CSRD-IIRC", "integrated sustainability disclosure">>,
  <<"SBT-TCFD", "science-based climate action">>,
  <<"BCORP-SDG", "impact measurement and sustainable development">>,
  <<"ISO26000-UNGC", "ethical business practices and social responsibility">> }

GenericConnection == "sustainability compliance and strategic performance"

\* knownConnections[framework1]: the inner literal, or what Object.prototype holds
KnownOf(framework1) ==
  IF \E k \in knownConnections : k[1] = framework1
  THEN ObjectValue("knownConnections." \o framework1)
  ELSE IF framework1 = "__proto__" THEN ObjectValue("Object.prototype")
  ELSE FromObjectPrototype(framework1)

\* knownConnections[framework1]?.[framework2]
Known(framework1, framework2) ==
  LET inner == KnownOf(framework1)
  IN  IF inner.type = "undefined" THEN Undefined
      ELSE IF \E k \in knownConnections : k[1] = framework1
      THEN IF \E k \in knownConnections : k[1] = framework1 /\ k[2] = framework2
           THEN StringValue((CHOOSE k \in knownConnections :
                               k[1] = framework1 /\ k[2] = framework2)[3])
           ELSE IF framework2 = "__proto__" THEN ObjectValue("Object.prototype")
           ELSE FromObjectPrototype(framework2)
      ELSE Property(inner, framework2)

\* description.toLowerCase().includes(keyword) of a description that is a string
DescriptionIncludes(description, k) ==
  Includes(toLowerCase(Chars(description.value)), Chars(themeKeywords[k]))

SharedKeyword(description1, description2, k) ==
  /\ DescriptionIncludes(description1, k)
  /\ DescriptionIncludes(description2, k)

\* defaultThemes[pairKey]: a key holds a hyphen, which no name held by
\* Object.prototype does
HasDefault(pairKey) == \E d \in defaultThemes : d[1] = pairKey

Default(pairKey) == StringValue((CHOOSE d \in defaultThemes : d[1] = pairKey)[2])

\* lines 346-367: the default themes, the generic connection
AfterKeywords(framework1, framework2) ==
  LET pairKey1 == framework1 \o "-" \o framework2
      pairKey2 == framework2 \o "-" \o framework1
  IN  IF HasDefault(pairKey1) THEN Default(pairKey1)
      ELSE IF HasDefault(pairKey2) THEN Default(pairKey2)
      ELSE StringValue(GenericConnection)

\* lines 333-367: the keywords of the descriptions, the default themes, the generic
\* connection.  A description that is no string has no toLowerCase: the call of line
\* 339 throws for description1 at the first keyword, the call of line 340 throws for
\* description2 at the first keyword that description1 contains
AfterKnown(framework1, framework2, description1, description2) ==
  IF ~(Truthy(description1) /\ Truthy(description2))
  THEN AfterKeywords(framework1, framework2)
  ELSE IF description1.type # "string" THEN Throws
  ELSE IF description2.type # "string"
  THEN IF \E k \in 1..Len(themeKeywords) : DescriptionIncludes(description1, k)
       THEN Throws
       ELSE AfterKeywords(framework1, framework2)
  ELSE IF \E k \in 1..Len(themeKeywords) : SharedKeyword(description1, description2, k)
  THEN StringValue(themeKeywords[CHOOSE k \in 1..Len(themeKeywords) :
                       /\ SharedKeyword(description1, description2, k)
                       /\ \A j \in 1..(k - 1) : ~SharedKeyword(description1, description2, j)])
  ELSE AfterKeywords(framework1, framework2)

\* the value returned, or Throws when a read of lines 326-329 or a call of lines
\* 339-340 throws
findThematicConnection(framework1, framework2, description1, description2) ==
  IF Known(framework1, framework2) = Throws THEN Throws
  ELSE IF Truthy(Known(framework1, framework2)) THEN Known(framework1, framework2)
  ELSE IF Known(framework2, framework1) = Throws THEN Throws
  ELSE IF Truthy(Known(framework2, framework1)) THEN Known(framework2, framework1)
  ELSE AfterKnown(framework1, framework2, description1, description2)

(***************************************************************************)
(* generateQuestionsFromFrameworks, lines 127-217: the data of the         *)
(* frameworks, the framework pairs, the scored question pairs, the ranking.*)
(***************************************************************************)
CHUNK_SIZE == 50

BATCH_SIZE == 10

\* lines 128-145: the lookup maps are keyed by name, so the last entry of a name wins
LastPosition(frameworks, name) ==
  CHOOSE i \in 1..Len(frameworks) :
     frameworks[i] = name /\ \A j \in (i + 1)..Len(frameworks) : frameworks[j] # name

\* lines 128-145: the two lookup maps, given the positions of frameworks whose fetch
\* succeeded; a name given twice keeps the data of its last fetch
QuestionsLoaded(names, questionsOk) ==
  [name \in SeqRange(names) |->
     getQuestionsForFramework(name, LastPosition(names, name) \in questionsOk)]

\* frameworkDescriptions[name] as line 164 reads it.  Line 144 stores a string: under
\* the name __proto__ the store goes to the setter of Object.prototype, which ignores a
\* value that is no object, and the read gives the prototype of the map
DescriptionsLoaded(names, descriptionOk) ==
  [name \in SeqRange(names) |->
     IF name = "__proto__"
     THEN ObjectValue("Object.prototype")
     ELSE StringValue(getFrameworkDescription(name, LastPosition(names, name) \in descriptionOk))]

\* lines 154-169: the pairs i < j in the order of the two loops
RECURSIVE FrameworkPairsFrom(_, _, _, _)
FrameworkPairsFrom(names, descriptions, i, j) ==
  IF i > Len(names) THEN <<>>
  ELSE IF j > Len(names) THEN FrameworkPairsFrom(names, descriptions, i + 1, i + 2)
  ELSE << [framework1 |-> names[i],
           framework2 |-> names[j],
           thematicConnection |->
             findThematicConnection(names[i], names[j],
                                    descriptions[names[i]], descriptions[names[j]]),
           positions |-> <<i, j>>] >>
       \o FrameworkPairsFrom(names, descriptions, i, j + 1)

frameworkPairs(names, descriptions) == FrameworkPairsFrom(names, descriptions, 1, 2)

\* lines 185-209: the question pairs of one framework pair with a positive score
ScoredPairs(fp, questions1, questions2) ==
  LET n2 == Len(questions2)
      cross == [k \in 1..(Len(questions1) * n2) |->
                  LET a == ((k - 1) \div n2) + 1
                      b == ((k - 1) % n2) + 1
                  IN  [framework1 |-> fp.framework1,
                       framework2 |-> fp.framework2,
                       question1 |-> questions1[a],
                       question2 |-> questions2[b],
                       score |-> calculateQuestionSimilarity(questions1[a], questions2[b]),
                       thematicConnection |-> fp.thematicConnection,
                       origin |-> fp.positions \o <<a, b>>]]
  IN  SelectSeq(cross, LAMBDA c : ScorePositive(c.score))

RECURSIVE Flatten(_)
Flatten(lists) == IF lists = <<>> THEN <<>> ELSE Head(lists) \o Flatten(Tail(lists))

\* line 184: frameworkPairs.slice(i, i + CHUNK_SIZE)
Chunk(fps, i) ==
  SubSeq(fps, i + 1, IF i + CHUNK_SIZE < Len(fps) THEN i + CHUNK_SIZE ELSE Len(fps))

\* lines 185-211: the results of the framework pairs of one chunk
ChunkResults(chunk, questions) ==
  [k \in 1..Len(chunk) |->
     ScoredPairs(chunk[k], questions[chunk[k].framework1], questions[chunk[k].framework2])]

\* allQuestionPairs.sort((a, b) => b.score - a.score): a stable sort, descending
RECURSIVE InsertByScore(_, _)
InsertByScore(sorted, c) ==
  IF sorted = <<>> THEN <<c>>
  ELSE IF ScoreLess(Head(sorted).score, c.score) THEN <<c>> \o sorted
  ELSE <<Head(sorted)>> \o InsertByScore(Tail(sorted), c)

\* the candidates left in the order the chunks produced them
Unsorted(pairs) == pairs

RECURSIVE SortByScore(_)
SortByScore(pairs) ==
  IF pairs = <<>> THEN <<>>
  ELSE InsertByScore(SortByScore(SubSeq(pairs, 1, Len(pairs) - 1)), pairs[Len(pairs)])

\* array.slice(from, to), 0-based, to excluded
Slice(s, from, to) ==
  LET hi == IF to < Len(s) THEN to ELSE Len(s)
  IN  IF from >= hi THEN <<>> ELSE SubSeq(s, from + 1, hi)

(***************************************************************************)
(* The state of one call of generateQuestionsFromFrameworks and of the     *)
(* module lib/openai.ts.                                                   *)
(*                                                                         *)
(* An attempt is one call of createMergedQuestion: pos is the place of its *)
(* pair in allQuestionPairs, index its index argument, stage where its     *)
(* mergeQuestionsWithAI stands ("primary" and "fallback" are the two       *)
(* awaited service calls), settle the state of its promise, value what it  *)
(* resolved to, calls the number of service calls it made.  The emoji of   *)
(* line 714 is drawn when the question is built: nothing reads it before.  *)
(***************************************************************************)
VARIABLES
  count,               \* the count argument
  frameworks,          \* the frameworks argument
  pc,                  \* where the call stands
  allFrameworkQuestions, \* the questions fetched, by framework name
  frameworkDescriptions, \* the descriptions fetched, by framework name
  chunkStart,          \* i of the loop of line 183
  allQuestionPairs,    \* the candidate pairs, ranked once the chunks are scored
  batchStart,          \* batchStart of the loop of line 224
  attempts,            \* the calls of createMergedQuestion made so far
  generatedQuestions,  \* the accumulated questions
  outcome,             \* how the call ended: [kind, questions, error]
  questionCache,       \* the merge cache of lib/openai.ts
  tests,               \* the calls of testOpenAI made so far
  probe                \* the inputs and the result of a function applied on its own

\* the two lookup maps of lines 139-140
fetched == <<allFrameworkQuestions, frameworkDescriptions>>

vars == <<count, frameworks, pc, allFrameworkQuestions, frameworkDescriptions,
          chunkStart, allQuestionPairs, batchStart, attempts,
          generatedQuestions, outcome, questionCache, tests, probe>>

MaxCount == 2

Pending == [kind |-> "pending", questions |-> <<>>, error |-> ""]

\* the call returns the list
ReturnedWith(questions) == [kind |-> "returned", questions |-> questions, error |-> ""]

\* the call throws: error tells the errors apart
ThrewWith(error) == [kind |-> "threw", questions |-> <<>>, error |-> error]

\* line 271: new Error("Failed to generate any questions. Please try again.")
NoQuestionsGenerated == "Failed to generate any questions. Please try again."

\* the TypeError that findThematicConnection throws at line 161, out of the call
ConnectionTypeError == "TypeError"

\* the rejection of an attempt of a batch, out of the await of lines 239 and 265
MergeRejection == "rejected"

\* the frameworks arguments the model calls the function with
LongSelection == <<"SASB", "F1", "F2", "F3", "F4", "F5", "F6", "F7", "F8", "TCFD",
                   "GRI Standards">>

FrameworkSelections == {
  <<>>,
  <<"TCFD">>,
  <<"toString", "caller">>,
  <<"TCFD", "GRI Standards">>,
  <<"TCFD", "Unlisted">>,
  <<"TCFD", "__proto__">>,
  <<"Twin A", "Twin B">>,
  <<"Raw A", "Raw B">>,
  <<"Stop A", "Stop B">>,
  LongSelection }

(***************************************************************************)
(* The answers of the text-generation service to one call.                 *)
(***************************************************************************)
ServiceError == [ok |-> FALSE, content |-> <<>>]

Answer(content) == [ok |-> TRUE, content |-> content]

\* q without the punctuation at its end
Stem(q) == SubSeq(q, 1, SkipBackward(q, {"?", ".", " "}, Len(q)))

\* a merged question that names both questions
GoodContent(a) == Stem(a.question1) \o Chars(" and ") \o toLowerCase(Stem(a.question2)) \o <<"?">>

\* a valid merged question after a first line of two letters
ShortLine(a) == Chars("Hi\n") \o GoodContent(a)

\* a valid merged question of more than 500 characters on one line
LongLine(a) ==
  Stem(GoodContent(a)) \o <<" ">> \o [k \in 1..MaxQuestionLength |-> "a"] \o <<"?">>

\* the answers that pass validateResponse and fail the length check of line 757
LengthAnswers(a) == {Answer(ShortLine(a)), Answer(LongLine(a))}

\* the answers a run of the pipeline is checked against
RunAnswers(a) == {ServiceError, Answer(GoodContent(a)), Answer(<<>>)}

\* the answers one merge attempt is checked against
MergeAnswers(a) ==
  RunAnswers(a) \cup {
    Answer(Chars("DIFFERENT_CONTEXT")),
    Answer(Chars("<b>") \o GoodContent(a) \o Chars("</b>")),
    Answer(a.question1),
    Answer(Chars("  ") \o validEmojis[5] \o <<" ">> \o GoodContent(a) \o Chars(" Thanks."))}
  \cup LengthAnswers(a)

(***************************************************************************)
(* Starting createMergedQuestion for a pair: it runs to its first await.   *)
(***************************************************************************)
\* Math.floor(Math.random() * 12) + 1: the position of the emoji drawn
AllEmojiChoices == 1..Len(validEmojis)

\* the draws a run of the pipeline is checked against, one of each kind the length and
\* the format checks of lines 757-762 tell apart: a surrogate pair, a single unit of
\* the Basic Multilingual Plane, and an emoji followed by the variation selector
RunEmojiChoices == {1, 5, 8}

\* a merge on its own is checked against each of the twelve draws
\* a call for more than one batch is checked against one draw
LongRunEmojiChoices == {1}

EmojiChoices ==
  IF pc = "merge" THEN AllEmojiChoices
  ELSE IF count > BATCH_SIZE THEN LongRunEmojiChoices
  ELSE RunEmojiChoices

\* the answers of the service a call with the given arguments is checked against; a
\* call of the pipeline for one question is checked against the answers of the wrong
\* length as well
ServiceAnswersFor(arguments) ==
  IF pc = "merge" THEN MergeAnswers(arguments)
  ELSE IF pc \in {"initial", "additional", "done"} /\ count = 1
  THEN RunAnswers(arguments) \cup LengthAnswers(arguments)
  ELSE RunAnswers(arguments)

\* a createMergedQuestion without the short-circuit of line 678
PlanWithoutShortCircuit(pair, cache) == MergeEntry(MergeArguments(pair), cache)

\* what createMergedQuestion does with a pair before any emoji is drawn: the
\* short-circuit of line 678, a merge that returns without a call, or the primary call
Plan(pair, cache) ==
  LET text1 == Text1(pair)
      text2 == Text2(pair)
  IN  IF normalizeQuestion(text1) = normalizeQuestion(text2)
      THEN [kind |-> "identical", text |-> text1]
      ELSE MergeEntry(MergeArguments(pair), cache)

\* emoji and race are not state of the code: they record the glyph drawn at line 679 or
\* 714 (0 while the race is on and when the timer won, where the draw decides nothing)
\* and how the race of line 719 ended
NewAttempt(pair, pos, index, phase, plan, emoji) ==
  LET base == [pos |-> pos, index |-> index, phase |-> phase]
  IN  IF plan.kind = "identical"
      THEN base @@ [stage |-> "none", settle |-> "resolved",
                    value |-> IdenticalQuestion(pair, index, emoji), calls |-> 0,
                    emoji |-> emoji, race |-> NoRace]
      ELSE IF plan.kind = "return"
      THEN base @@ [stage |-> "done", calls |-> 0, emoji |-> emoji,
                    race |-> Resolved(plan.text)]
                @@ CatchMerge(TryMerge(pair, index, emoji, Resolved(plan.text)))
      ELSE base @@ [stage |-> "primary", settle |-> "pending", value |-> Null, calls |-> 1,
                    emoji |-> 0, race |-> NoRace]

\* batch.map((pair, index) => createMergedQuestion(..., base + index, ...)) over the
\* pairs at positions first .. last of pairs; plans and draws are indexed from 1
NewAttempts(pairs, first, last, base, phase, plans, draws) ==
  [k \in 1..(last - first + 1) |->
     NewAttempt(pairs[first + k - 1], first + k - 1, base + k - 1, phase, plans[k],
                IF k \in DOMAIN draws THEN draws[k] ELSE 1)]

Plans(pairs, first, last, cache) ==
  [k \in 1..(last - first + 1) |-> Plan(pairs[first + k - 1], cache)]

\* the emoji draws of a batch: one for each attempt that builds its question at once
Draws(plans) == [{k \in DOMAIN plans : plans[k].kind # "call"} -> EmojiChoices]

Min(a, b) == IF a < b THEN a ELSE b

(***************************************************************************)
(* The control flow of generateQuestionsFromFrameworks from line 215 on,   *)
(* from one await to the next.  pairs is allQuestionPairs, gen is          *)
(* generatedQuestions, att the attempts made so far.                       *)
(***************************************************************************)
selectedPairs(pairs, n) == Slice(pairs, 0, n)

\* an end that fails unless count questions were generated
FinishWhenComplete(gen) ==
  /\ pc' = "done"
  /\ generatedQuestions' = gen
  /\ outcome' = IF Len(gen) < count
                THEN ThrewWith(NoQuestionsGenerated)
                ELSE ReturnedWith(Slice(gen, 0, count))

\* lines 270-274
Finish(gen) ==
  /\ pc' = "done"
  /\ generatedQuestions' = gen
  /\ outcome' = IF Len(gen) = 0 /\ count > 0
                THEN ThrewWith(NoQuestionsGenerated)
                ELSE ReturnedWith(Slice(gen, 0, count))

\* the attempts for the pairs at positions first .. last start, each running to its
\* first await
StartAttempts(pairs, first, last, gen, att, start, phase, plans) ==
  \E draws \in Draws(plans) :
     /\ attempts' = att \o NewAttempts(pairs, first, last, Len(gen), phase, plans, draws)
     /\ pc' = phase
     /\ batchStart' = start
     /\ generatedQuestions' = gen
     /\ outcome' = outcome

\* an additional round that takes its pairs from the top of the ranking again
AdditionalStartAtTop(n) == 0

\* line 251: the additional pairs start at index n = count (0-based), after the
\* pairs of the selection
AdditionalStart(n) == n

\* an additional round that takes every pair of allQuestionPairs.slice(count, count * 2)
AdditionalCountWhole(pairs, gen) ==
  Len(Slice(pairs, AdditionalStart(count), count * 2))

\* lines 251-253: allQuestionPairs.slice(count, count * 2).slice(0, count - generated),
\* as the number of additional pairs
AdditionalCount(pairs, gen) ==
  Min(Len(Slice(pairs, AdditionalStart(count), count * 2)), count - Len(gen))

\* lines 249-268: the additional pairs, or the end
AfterLoop(pairs, gen, att, start, cache) ==
  IF Len(gen) < count /\ Len(pairs) > count
  THEN StartAttempts(pairs, AdditionalStart(count) + 1,
                     AdditionalStart(count) + AdditionalCount(pairs, gen),
                     gen, att, start, "additional",
                     Plans(pairs, AdditionalStart(count) + 1,
                           AdditionalStart(count) + AdditionalCount(pairs, gen), cache))
  ELSE /\ Finish(gen)
       /\ attempts' = att
       /\ batchStart' = start

\* line 226: Math.min(batchStart + BATCH_SIZE, selectedPairs.length)
BatchEnd(pairs, start) == Min(start + BATCH_SIZE, Len(selectedPairs(pairs, count)))

\* lines 224-237: the head of the batch loop at batchStart = start
LoopHead(pairs, gen, att, start, cache) ==
  IF start < Len(selectedPairs(pairs, count))
  THEN StartAttempts(pairs, start + 1, BatchEnd(pairs, start), gen, att, start, "initial",
                     Plans(pairs, start + 1, BatchEnd(pairs, start), cache))
  ELSE AfterLoop(pairs, gen, att, start, cache)

(***************************************************************************)
(* The actions of a call of generateQuestionsFromFrameworks.               *)
(***************************************************************************)
Init ==
  /\ count \in 0..MaxCount
  /\ frameworks \in FrameworkSelections
  /\ pc = "ready"
  /\ allFrameworkQuestions = <<>>
  /\ frameworkDescriptions = <<>>
  /\ allQuestionPairs = <<>>
  /\ chunkStart = 0
  /\ batchStart = 0
  /\ tests = <<>>
  /\ attempts = <<>>
  /\ generatedQuestions = <<>>
  /\ outcome = Pending
  /\ questionCache = <<>>
  /\ probe = <<>>

\* lines 123-136: the guard, then the fetches of the framework data start
Generate ==
  /\ pc = "ready"
  /\ IF Len(frameworks) < 2
     THEN /\ pc' = "done"
          /\ outcome' = ReturnedWith(<<>>)
     ELSE /\ pc' = "loading"
          /\ outcome' = outcome
  /\ UNCHANGED <<count, frameworks, chunkStart, tests,
                 fetched, allQuestionPairs, batchStart, attempts,
                 generatedQuestions, questionCache, probe>>

\* the positions of frameworks whose name is in the document: only their fetches matter
ListedPositions == {i \in 1..Len(frameworks) : frameworks[i] \in DocumentNames}

Unlisted == (1..Len(frameworks)) \ ListedPositions

\* a call of findThematicConnection at line 161 throws
ConnectionThrows(fps) == \E k \in 1..Len(fps) : fps[k].thematicConnection = Throws

\* lines 139-211: the lookup maps are questions and descriptions; the framework pairs
\* are made, at least one for two names, and the first chunk is submitted.  A TypeError
\* of findThematicConnection (line 161) is caught nowhere: it ends the call
Loaded(questions, descriptions) ==
  /\ allFrameworkQuestions' = questions
  /\ frameworkDescriptions' = descriptions
  /\ chunkStart' = 0
  /\ IF ConnectionThrows(frameworkPairs(frameworks, descriptions))
     THEN /\ pc' = "done"
          /\ outcome' = ThrewWith(ConnectionTypeError)
     ELSE /\ pc' = "scoring"
          /\ outcome' = outcome

\* lines 136-211: the fetches have ended, each well or not; the call goes on to the
\* await of the first chunk
DataLoaded ==
  /\ pc = "loading"
  /\ \E questionsFailed \in SUBSET ListedPositions, descriptionFailed \in SUBSET ListedPositions :
       Loaded(QuestionsLoaded(frameworks, (1..Len(frameworks)) \ questionsFailed),
              DescriptionsLoaded(frameworks, (1..Len(frameworks)) \ descriptionFailed))
  /\ UNCHANGED <<count, frameworks, allQuestionPairs, batchStart, attempts, generatedQuestions,
                 questionCache, tests, probe>>

\* lines 216-237: the candidates are sorted and the first batch starts
Ranked(pairs) ==
  /\ allQuestionPairs' = SortByScore(pairs)
  /\ LoopHead(SortByScore(pairs), <<>>, <<>>, 0, questionCache)

\* lines 211-212: allQuestionPairs with the results of the chunk at chunkStart
WithChunk ==
  allQuestionPairs
    \o Flatten(ChunkResults(Chunk(frameworkPairs(frameworks, frameworkDescriptions), chunkStart),
                            allFrameworkQuestions))

\* lines 211-237: the chunk at chunkStart has been scored; the next chunk is
\* submitted, or the candidates are ranked and the first batch starts
ChunkScored ==
  /\ pc = "scoring"
  /\ chunkStart' = chunkStart + CHUNK_SIZE
  /\ IF chunkStart + CHUNK_SIZE < Len(frameworkPairs(frameworks, frameworkDescriptions))
     THEN /\ allQuestionPairs' = WithChunk
          /\ UNCHANGED <<pc, batchStart, attempts, generatedQuestions, outcome>>
     ELSE Ranked(WithChunk)
  /\ UNCHANGED <<count, frameworks, fetched, questionCache, tests, probe>>

Unsettled == {i \in 1..Len(attempts) : attempts[i].settle = "pending"}

\* the attempts the call is awaiting: those of the batch at batchStart, or the
\* additional ones
Current ==
  {i \in 1..Len(attempts) :
     /\ attempts[i].phase = pc
     /\ pc = "initial" => attempts[i].pos \in (batchStart + 1)..(batchStart + BATCH_SIZE)}

\* the values of the attempts of the batch that has settled, the last submitted first
BatchValuesNewestFirst ==
  Flatten([i \in 1..Len(attempts) |->
             IF (Len(attempts) + 1 - i) \in Current
             THEN attempts[Len(attempts) + 1 - i].value ELSE <<>>])

\* the values of the attempts of the batch that has settled, in the order of submission
BatchValues == Flatten([i \in 1..Len(attempts) |->
                          IF i \in Current THEN attempts[i].value ELSE <<>>])

\* Promise.all rejects when one of its promises does
Rejects == \E i \in Current : attempts[i].settle = "rejected"

\* a loop that stops one question short of count
AfterBatchStopsOneShort(gen) ==
  IF Len(gen) >= count - 1
  THEN AfterLoop(allQuestionPairs, gen, attempts, batchStart, questionCache)
  ELSE LoopHead(allQuestionPairs, gen, attempts, batchStart + BATCH_SIZE, questionCache)

\* lines 239-244: generatedQuestions is now gen; the loop goes on or ends
AfterBatch(gen) ==
  IF Len(gen) >= count
  THEN AfterLoop(allQuestionPairs, gen, attempts, batchStart, questionCache)
  ELSE LoopHead(allQuestionPairs, gen, attempts, batchStart + BATCH_SIZE, questionCache)

\* lines 239-247: the batch has settled; the next batch, the additional pairs or the end
BatchSettled ==
  /\ pc = "initial"
  /\ Current \cap Unsettled = {}
  /\ IF Rejects
     THEN /\ pc' = "done"
          /\ outcome' = ThrewWith(MergeRejection)
          /\ UNCHANGED <<attempts, batchStart, generatedQuestions>>
     ELSE AfterBatch(generatedQuestions \o BatchValues)
  /\ UNCHANGED <<count, frameworks, chunkStart, tests,
                 fetched, allQuestionPairs, questionCache, probe>>

\* lines 265-274: the additional attempts have settled
AdditionalSettled ==
  /\ pc = "additional"
  /\ Current \cap Unsettled = {}
  /\ IF Rejects
     THEN /\ pc' = "done"
          /\ outcome' = ThrewWith(MergeRejection)
          /\ UNCHANGED <<generatedQuestions>>
     ELSE Finish(generatedQuestions \o BatchValues)
  /\ UNCHANGED <<count, frameworks, chunkStart, tests,
                 fetched, allQuestionPairs, batchStart, attempts, questionCache,
                 probe>>

(***************************************************************************)
(* The service answers and the timers of the attempts in flight.           *)
(***************************************************************************)
\* the attempt settles with the text its merge returned, unless its timer won before
SettleWith(a, pair, emoji, text) ==
  IF a.settle = "pending"
  THEN CatchMerge(TryMerge(pair, a.index, emoji, Resolved(text)))
         @@ [emoji |-> emoji, race |-> Resolved(text)]
  ELSE [settle |-> a.settle, value |-> a.value, emoji |-> a.emoji, race |-> a.race]

\* attempt i with its merge over: mergeQuestionsWithAI returned text
MergeReturned(i, a, text) ==
  \E emoji \in EmojiChoices :
     attempts' = [attempts EXCEPT
                    ![i] = [pos |-> a.pos, index |-> a.index, phase |-> a.phase,
                            stage |-> "done", calls |-> a.calls]
                           @@ SettleWith(a, allQuestionPairs[a.pos], emoji, text)]

\* what attempt i does with the outcome r of openai.ts:105-137
AfterAnswer(i, a, r) ==
  /\ questionCache' = r.cache
  /\ IF r.kind = "call"
     THEN attempts' = [attempts EXCEPT ![i].stage = "fallback", ![i].calls = a.calls + 1]
     ELSE MergeReturned(i, a, r.text)

\* for a merge on its own, the answers of the service so far, in the order of arrival
Received(answer) == IF pc = "merge" THEN Append(probe, answer) ELSE probe

\* the primary call of attempt i answers (openai.ts:94-125)
PrimaryAnswer(i, arguments, answer) ==
  /\ attempts[i].stage = "primary"
  /\ \E randomEmoji \in EmojiChoices :
       AfterAnswer(i, attempts[i],
                   MergeAfterPrimary(arguments, questionCache, answer, randomEmoji))
  /\ probe' = Received(answer)
  /\ UNCHANGED <<count, frameworks, chunkStart, tests,
                 fetched, pc, allQuestionPairs, batchStart, generatedQuestions,
                 outcome>>

\* the fallback call of attempt i answers (openai.ts:115-125, 236-250)
FallbackAnswer(i, arguments, answer) ==
  /\ attempts[i].stage = "fallback"
  /\ \E randomEmoji \in EmojiChoices :
       AfterAnswer(i, attempts[i],
                   MergeAfterFallback(arguments, questionCache, answer, randomEmoji))
  /\ probe' = Received(answer)
  /\ UNCHANGED <<count, frameworks, chunkStart, tests,
                 fetched, pc, allQuestionPairs, batchStart, generatedQuestions,
                 outcome>>

\* a timer that never fires
TimerNeverFires(i) == FALSE /\ UNCHANGED vars

\* the 5 second timer of line 729 wins the race of attempt i; its merge goes on
Timeout(i) ==
  /\ attempts[i].settle = "pending"
  /\ attempts' = [attempts EXCEPT
                    ![i] = [pos |-> attempts[i].pos, index |-> attempts[i].index,
                            phase |-> attempts[i].phase, stage |-> attempts[i].stage,
                            calls |-> attempts[i].calls, emoji |-> 0, race |-> TimedOut]
                           @@ CatchMerge(TryMerge(allQuestionPairs[attempts[i].pos],
                                                  attempts[i].index, 1, TimedOut))]
  /\ UNCHANGED <<count, frameworks, chunkStart, tests,
                 fetched, pc, allQuestionPairs, batchStart, generatedQuestions,
                 outcome, questionCache, probe>>

\* the service answers a call of attempt i, whose merge has the given arguments
AnswerArrives(i, arguments) ==
  \E answer \in ServiceAnswersFor(arguments) :
     PrimaryAnswer(i, arguments, answer) \/ FallbackAnswer(i, arguments, answer)

ServiceAnswers ==
  \E i \in 1..Len(attempts) :
     /\ attempts[i].stage \in {"primary", "fallback"}
     /\ AnswerArrives(i, MergeArguments(allQuestionPairs[attempts[i].pos]))

Timers == \E i \in 1..Len(attempts) : Timeout(i)

(***************************************************************************)
(* testOpenAI (part_000:802-842), which the test button of the page calls  *)
(* (Index.tsx:122-135): one merge of two fixed questions over the cache of *)
(* lib/openai.ts.  A test is the stage of its merge and the text it        *)
(* returned.  The page shows the button while it shows no questions and no *)
(* generation runs, and disables it while a test runs; once pressed, the   *)
(* test runs beside whatever the page does next.                           *)
(***************************************************************************)
MaxTests == 1

\* part_000:811-817; no similarityScore is given: undefined counts as false at
\* openai.ts:65 and 112 as the score 0 does
TestArguments ==
  [framework1 |-> "GRI",
   framework2 |-> "SASB",
   question1 |-> Chars("How does your organization report on greenhouse gas emissions?"),
   question2 |-> Chars("What metrics do you use to track water consumption?"),
   thematicConnection |-> StringValue("Environmental Impact"),
   similarityScore |-> ZeroScore]

\* the test after a step r of its merge
TestAfter(r) ==
  IF r.kind = "call"
  THEN [stage |-> "fallback", result |-> <<>>]
  ELSE [stage |-> "done", result |-> r.text]

\* Index.tsx:240: questions.length === 0 && !isGenerating; the page keeps the questions
\* of a call that returned some (Index.tsx:75-77)
TestButtonShown == pc = "ready" \/ (pc = "done" /\ outcome.questions = <<>>)

\* Index.tsx:24, 123-133: true from the press of the button until testOpenAI settles
isTestingOpenAI == \E i \in 1..Len(tests) : tests[i].stage # "done"

\* the button is pressed: testOpenAI runs to the first await of its merge
TestOpenAI ==
  /\ TestButtonShown
  /\ ~isTestingOpenAI
  /\ Len(tests) < MaxTests
  /\ tests' = Append(tests,
                     IF MergeEntry(TestArguments, questionCache).kind = "call"
                     THEN [stage |-> "primary", result |-> <<>>]
                     ELSE [stage |-> "done",
                           result |-> MergeEntry(TestArguments, questionCache).text])
  /\ UNCHANGED <<count, frameworks, pc, fetched, chunkStart, allQuestionPairs, batchStart,
                 attempts, generatedQuestions, outcome, questionCache, probe>>

\* the draws of line 299 of openai.ts a test is checked against
TestEmojiChoices == {1}

\* the service answers the call of test i: its merge goes on to the fallback call or
\* returns, and testOpenAI returns what it returned
TestAnswer(i, answer, randomEmoji) ==
  /\ tests[i].stage \in {"primary", "fallback"}
  /\ LET r == IF tests[i].stage = "primary"
              THEN MergeAfterPrimary(TestArguments, questionCache, answer, randomEmoji)
              ELSE MergeAfterFallback(TestArguments, questionCache, answer, randomEmoji)
     IN  /\ questionCache' = r.cache
         /\ tests' = [tests EXCEPT ![i] = TestAfter(r)]
  /\ UNCHANGED <<count, frameworks, pc, fetched, chunkStart, allQuestionPairs, batchStart,
                 attempts, generatedQuestions, outcome, probe>>

\* the answers a test is checked against
TestAnswersFor == RunAnswers(TestArguments)

TestAnswers ==
  \E i \in 1..Len(tests) :
     /\ tests[i].stage \in {"primary", "fallback"}
     /\ \E answer \in TestAnswersFor, randomEmoji \in TestEmojiChoices :
           TestAnswer(i, answer, randomEmoji)

Next ==
  \/ Generate
  \/ DataLoaded
  \/ ChunkScored
  \/ BatchSettled
  \/ AdditionalSettled
  \/ ServiceAnswers
  \/ Timers
  \/ TestOpenAI
  \/ TestAnswers

Spec == Init /\ [][Next]_vars

(***************************************************************************)
(* createMergedQuestion on its own: one candidate pair, merged up to       *)
(* MaxMerges times, one call after the other, over the same cache.         *)
(***************************************************************************)
MaxIndex == 1

MaxMerges == 1

\* the questions the two frameworks of a merge hold
MergePool == <<
  RawQuestion("How does your organization manage climate risk?", "Risk", "TCFD-1", ""),
  RawQuestion("how does your *organization*, manage climate  risk?", "Risk", "", "g1"),
  RawQuestion("How does your company manage climate risk exposure?", "risk", "GRI-1", ""),
  RawQuestion("Describe the board oversight of climate policy.", "Governance", "", "t2"),
  RawQuestion("Report climate governance\nboard oversight policy", "", "", "s1") >>

MergeFrameworkPair ==
  [framework1 |-> "TCFD",
   framework2 |-> "GRI Standards",
   thematicConnection |-> findThematicConnection("TCFD", "GRI Standards", "", ""),
   positions |-> <<1, 2>>]

\* the candidate pairs of two frameworks that both hold the questions of MergePool
MergePairs == SeqRange(ScoredPairs(MergeFrameworkPair, MergePool, MergePool))

InitMerge ==
  /\ count = 1
  /\ frameworks = <<"TCFD", "GRI Standards">>
  /\ pc = "merge"
  /\ allFrameworkQuestions = <<>>
  /\ frameworkDescriptions = <<>>
  /\ allQuestionPairs \in {<<pair>> : pair \in MergePairs}
  /\ chunkStart = 0
  /\ batchStart = 0
  /\ tests = <<>>
  /\ attempts = <<>>
  /\ generatedQuestions = <<>>
  /\ outcome = Pending
  /\ questionCache = <<>>
  /\ probe = <<>>

\* createMergedQuestion(..., index, ...) runs to its first await
StartOne(index, plans) ==
  \E draws \in Draws(plans) :
     attempts' = attempts \o NewAttempts(allQuestionPairs, 1, 1, index, "merge", plans, draws)

\* a call of createMergedQuestion for the pair, once the calls before it have settled
StartMerge ==
  /\ pc = "merge"
  /\ Len(attempts) < MaxMerges
  /\ Unsettled = {}
  /\ \E index \in 0..MaxIndex : StartOne(index, Plans(allQuestionPairs, 1, 1, questionCache))
  /\ UNCHANGED <<count, frameworks, chunkStart, tests,
                 fetched, pc, allQuestionPairs, batchStart,
                 generatedQuestions, outcome, questionCache, probe>>

NextMerge ==
  \/ StartMerge
  \/ ServiceAnswers
  \/ Timers

SpecMerge == InitMerge /\ [][NextMerge]_vars

(***************************************************************************)
(* calculateQuestionSimilarity on its own.                                 *)
(***************************************************************************)
\* a question as the function reads it: its text and its category
Scored(question, category) == [question |-> Chars(question), category |-> Chars(category)]

SimilarityPool == {
  Scored("How does your organization manage climate risk?", "Risk"),
  Scored("How does your company manage climate risk exposure?", "risk"),
  Scored("How does your company manage climate risk exposure?", ""),
  Scored("Describe the board oversight of climate policy.", "Governance"),
  Scored("Describe the Board  oversight of climate policy.", "governance"),
  Scored("What measures are taken to ensure board oversight?", "Governance"),
  Scored("How do you ensure that audit review covers carbon emission?", "Environment"),
  Scored("How does your organization manage waste?", "Environment"),
  Scored("Climate climate climate risk", "Risk"),
  Scored("  What steps are taken, what measures are taken?", ""),
  Scored("", "Risk") }

InitSim ==
  /\ count = 0
  /\ frameworks = <<>>
  /\ pc = "similarity"
  /\ allFrameworkQuestions = <<>>
  /\ frameworkDescriptions = <<>>
  /\ allQuestionPairs = <<>>
  /\ chunkStart = 0
  /\ batchStart = 0
  /\ tests = <<>>
  /\ attempts = <<>>
  /\ generatedQuestions = <<>>
  /\ outcome = Pending
  /\ questionCache = <<>>
  /\ probe \in {[q1 |-> q1, q2 |-> q2, score |-> <<>>] :
                  q1 \in SimilarityPool, q2 \in SimilarityPool}

\* calculateQuestionSimilarity(probe.q1, probe.q2) is called and returns
Score ==
  /\ pc = "similarity"
  /\ probe.score = <<>>
  /\ probe' = [probe EXCEPT !.score = <<calculateQuestionSimilarity(probe.q1, probe.q2)>>]
  /\ UNCHANGED <<count, frameworks, chunkStart, tests,
                 fetched, pc, allQuestionPairs, batchStart, attempts,
                 generatedQuestions, outcome, questionCache>>

NextSim == Score

SpecSim == InitSim /\ [][NextSim]_vars

(***************************************************************************)
(* Properties of the returned questions and of the calls.                  *)
(***************************************************************************)
Returned == outcome.kind = "returned"

Threw == outcome.kind = "threw"

\* the call failed with the error of line 271
FailedWithNoQuestions == outcome = ThrewWith(NoQuestionsGenerated)

\* the attempts that produced a question
Produced == {i \in 1..Len(attempts) : attempts[i].value # Null}

StartsWithEmojiAndSpace(text) ==
  \E e \in 1..Len(validEmojis) : startsWith(text, validEmojis[e] \o <<" ">>)

\* C1: the text of every returned question starts with one of the twelve emoji glyphs
\* followed by a space, and ends with a question mark
C1_TextHasEmojiAndQuestionMark ==
  \A k \in 1..Len(outcome.questions) :
     /\ StartsWithEmojiAndSpace(outcome.questions[k].text)
     /\ endsWith(outcome.questions[k].text, <<"?">>)

\* C2: for a pair whose cleaned texts are equal after normalization, createMergedQuestion
\* makes no call to the service and returns a question with generatedWithAI false
C2_IdenticalPairsSkipService ==
  \A i \in 1..Len(attempts) :
     IdenticalAfterNormalization(allQuestionPairs[attempts[i].pos])
       => /\ attempts[i].calls = 0
          /\ attempts[i].settle = "resolved"
          /\ attempts[i].value # Null
          /\ attempts[i].value[1].generatedWithAI = FALSE

\* a pair whose cleaned texts differ and are equal once normalized has been merged
C2_Witness ==
  \E i \in 1..Len(attempts) :
     /\ IdenticalAfterNormalization(allQuestionPairs[attempts[i].pos])
     /\ Text1(allQuestionPairs[attempts[i].pos]) # Text2(allQuestionPairs[attempts[i].pos])
     /\ attempts[i].value # Null

\* C3 as stated: with count > 0 and at least two frameworks, a run that produces no
\* merged question fails with the NoQuestionsGenerated error (the error of line 271),
\* and a run that returns returns at least one question
C3_NoQuestionsMeansError ==
  (pc = "done" /\ count > 0 /\ Len(frameworks) >= 2)
    => /\ generatedQuestions = <<>> => FailedWithNoQuestions
       /\ Returned => outcome.questions # <<>>

\* C4: a call with fewer than two framework names fails
C4_FewFrameworksFail ==
  (pc = "done" /\ Len(frameworks) < 2) => Threw

\* C5: no call of createMergedQuestion rejects, and the run does not fail while one of
\* its pairs produced a question
C5_FailuresAreAbsorbed ==
  /\ \A i \in 1..Len(attempts) : attempts[i].settle # "rejected"
  /\ (pc = "done" /\ Produced # {}) => Returned

\* a run has returned the question of one pair while the timer of another pair won
C5_Witness ==
  /\ pc = "done" /\ Returned
  /\ \E i, j \in 1..Len(attempts) :
        /\ attempts[i].settle = "resolved" /\ attempts[i].value = Null
        /\ attempts[i].stage = "primary"
        /\ attempts[j].value # Null

\* the questions of the frameworks at positions i and j, as loaded
LoadedQuestions(i) ==
  IF frameworks[i] \in DOMAIN allFrameworkQuestions
  THEN allFrameworkQuestions[frameworks[i]]
  ELSE <<>>

\* the candidate pairs of the call: positions i < j of frameworks, a question of each
Candidates ==
  UNION {{<<i, j>>} \X (1..Len(LoadedQuestions(i))) \X (1..Len(LoadedQuestions(j))) :
           <<i, j>> \in {p \in (1..Len(frameworks)) \X (1..Len(frameworks)) : p[1] < p[2]}}

CandidateScore(c) ==
  calculateQuestionSimilarity(LoadedQuestions(c[1][1])[c[2]], LoadedQuestions(c[1][2])[c[3]])

RankingDone == pc \in {"initial", "additional", "done"}

\* C6: calculateQuestionSimilarity returns 0 or a score of at least 10, and every pair
\* that is kept, ranked and submitted has a score of at least 10.  The questions are
\* loaded once: the scores of their pairs are looked at while the call scores them
C6_CandidatesReachThreshold ==
  /\ pc = "scoring" =>
        \A c \in Candidates :
           CandidateScore(c) = ZeroScore
             \/ ScoreAtLeast(CandidateScore(c), MIN_SIMILARITY_THRESHOLD)
  /\ \A k \in 1..Len(allQuestionPairs) :
        ScoreAtLeast(allQuestionPairs[k].score, MIN_SIMILARITY_THRESHOLD)
  /\ \A i \in 1..Len(attempts) :
        ScoreAtLeast(allQuestionPairs[attempts[i].pos].score, MIN_SIMILARITY_THRESHOLD)

\* two loaded questions share words and a pair scoring under the threshold was left out
\* while another pair was kept and submitted
C6_Witness ==
  /\ attempts # <<>>
  /\ \E c \in Candidates :
        /\ CandidateScore(c) = ZeroScore
        /\ ScorePositive(RawSimilarity(LoadedQuestions(c[1][1])[c[2]],
                                       LoadedQuestions(c[1][2])[c[3]]))

\* the positions of allQuestionPairs submitted in the first round
InitialPositions == {attempts[i].pos : i \in {k \in 1..Len(attempts) : attempts[k].phase = "initial"}}

\* pairs holds every candidate of every framework pair that reaches the threshold,
\* with its score
AllCandidatesIn(pairs) ==
  \A c \in Candidates :
     ScoreAtLeast(CandidateScore(c), MIN_SIMILARITY_THRESHOLD)
       => \E k \in 1..Len(pairs) :
             /\ pairs[k].origin = c[1] \o <<c[2], c[3]>>
             /\ pairs[k].score = CandidateScore(c)

\* the ranking is in non-increasing order of score and the pairs selected are its first
\* min(count, length) entries
SelectedFromTop ==
  /\ \A i, j \in 1..Len(allQuestionPairs) :
        i < j => ~ScoreLess(allQuestionPairs[i].score, allQuestionPairs[j].score)
  /\ InitialPositions \subseteq 1..Min(count, Len(allQuestionPairs))
  /\ pc \in {"additional", "done"}
       => InitialPositions = 1..Min(count, Len(allQuestionPairs))
  /\ \A s \in InitialPositions, u \in 1..Len(allQuestionPairs) :
        u \notin InitialPositions
          => ~ScoreLess(allQuestionPairs[s].score, allQuestionPairs[u].score)

\* C7: allQuestionPairs holds every candidate of every framework pair that reaches the
\* threshold, in non-increasing order of score, and the pairs selected are its first
\* min(count, length) entries: no candidate left out scores higher than a selected one.
\* The step that ends the scoring leaves every such candidate in the ranking, no later
\* step changes the ranking, and the selection is its top in every state from then on
C7_SelectionIsTopOfRanking ==
  /\ [][(pc = "scoring" /\ pc' # "scoring") => AllCandidatesIn(allQuestionPairs')]_vars
  /\ [][RankingDone => allQuestionPairs' = allQuestionPairs]_vars
  /\ [](RankingDone => SelectedFromTop)

\* a pair of the second chunk of framework pairs ranks first and is selected while a
\* pair of the first chunk, scored before it, is left out
C7_Witness ==
  /\ pc = "done" /\ count = 1
  /\ Len(allQuestionPairs) > 1
  /\ allQuestionPairs[1].origin[1] > 1
  /\ \E k \in 2..Len(allQuestionPairs) :
        /\ allQuestionPairs[k].origin[1] = 1
        /\ ScoreLess(allQuestionPairs[k].score, allQuestionPairs[1].score)
  /\ InitialPositions = {1}

\* every pair submitted produced a question
AllMergesSucceeded == Produced = 1..Len(attempts)

\* C8 as stated: the list never has more than count entries, and when k < count pairs
\* reach the threshold and the merge of each succeeds the call returns exactly k
\* questions without an error
C8_AsStated ==
  (pc = "done" /\ Len(frameworks) >= 2)
    => /\ Len(outcome.questions) <= count
       /\ (Len(allQuestionPairs) < count /\ AllMergesSucceeded)
            => (Returned /\ Len(outcome.questions) = Len(allQuestionPairs))

\* C8: the list never has more than count entries, and when k pairs reach the
\* threshold, 1 <= k < count, and the merge of each succeeds the call returns exactly
\* k questions without an error
C8_FewCandidatesNoPadding ==
  (pc = "done" /\ Len(frameworks) >= 2)
    => /\ Len(outcome.questions) <= count
       /\ (1 <= Len(allQuestionPairs) /\ Len(allQuestionPairs) < count /\ AllMergesSucceeded)
            => (Returned /\ Len(outcome.questions) = Len(allQuestionPairs))

\* a call has returned the questions of its only candidates, fewer than count
C8_Witness ==
  /\ pc = "done" /\ Len(frameworks) >= 2
  /\ 1 <= Len(allQuestionPairs) /\ Len(allQuestionPairs) < count
  /\ AllMergesSucceeded /\ Len(attempts) = Len(allQuestionPairs)
  /\ Returned /\ Len(outcome.questions) = Len(allQuestionPairs)

\* C9: no two questions of the returned list were built from the same candidate pair
C9_NoPairTwice ==
  Returned =>
    \A i, j \in 1..Len(outcome.questions) :
       i # j => outcome.questions[i].origin # outcome.questions[j].origin

\* a returned list holds a question of the first round and one of the additional round
C9_Witness ==
  /\ Returned /\ Len(outcome.questions) >= 2
  /\ \E i, j \in Produced :
        /\ attempts[i].phase = "initial"
        /\ attempts[j].phase = "additional"
        /\ \E k, l \in 1..Len(outcome.questions) :
              /\ outcome.questions[k].origin = allQuestionPairs[attempts[i].pos].origin
              /\ outcome.questions[l].origin = allQuestionPairs[attempts[j].pos].origin

\* C10: calculateQuestionSimilarity(q1, q2) = calculateQuestionSimilarity(q2, q1)
C10_SimilarityIsSymmetric ==
  probe # <<>> /\ probe.score # <<>>
    => probe.score[1] = calculateQuestionSimilarity(probe.q2, probe.q1)

\* two different questions that share a phrasing pattern have been scored at or above
\* the threshold
C10_Witness ==
  /\ probe # <<>> /\ probe.score # <<>>
  /\ probe.q1 # probe.q2
  /\ PatternMatch(toLowerCase(probe.q1.question), toLowerCase(probe.q2.question))
  /\ ScoreAtLeast(probe.score[1], MIN_SIMILARITY_THRESHOLD)

\* the positions of frameworks whose questions could not be fetched: every framework
\* of the document holds questions, so a listed name without questions is a failed fetch
QuestionFetchFailed == {i \in ListedPositions : LoadedQuestions(i) = <<>>}

\* C11: a run in which a fetch of the framework data failed ends with an error
C11_FetchFailureAborts ==
  (pc = "done" /\ Len(frameworks) >= 2 /\ QuestionFetchFailed # {}) => Threw

(***************************************************************************)
(* The cache of mergeQuestionsWithAI on its own (openai.ts:64-70,          *)
(* 127-139).  A call that misses the cache waits for the service; when its *)
(* answer arrives it stores its merged question, whatever other calls have *)
(* stored or evicted in between.  The pairs differ in their first          *)
(* question and are numbered in the order in which their keys are first    *)
(* stored.  probe.inserted counts the distinct keys stored so far,         *)
(* probe.calls holds the numbers of the calls in flight, probe.reinserted  *)
(* counts the stores under a key that had been evicted.                    *)
(***************************************************************************)
MaxKeys == 103

\* the calls that wait for the service at one time
MaxInFlight == 2

\* the pairs that are asked for again: beside a call for the same pair that is in
\* flight, or after their key was evicted
RepeatKeys == {1, 2, 50}

\* the arguments of the call for the n-th pair
KeyArguments(n) ==
  [framework1 |-> "TCFD",
   framework2 |-> "GRI Standards",
   question1 |-> Chars("How is risk ") \o Decimal(n) \o Chars(" managed?"),
   question2 |-> Chars("How is climate risk managed?"),
   thematicConnection |-> StringValue(""),
   similarityScore |-> ZeroScore]

KeyOf(n) ==
  CacheKey("TCFD", "GRI Standards", KeyArguments(n).question1, KeyArguments(n).question2,
           StringValue(""), ZeroScore)

\* the merged question a call stores: the answer to the call whose store is the first
\* under its key, or the answer to a call whose key had been stored before
StoredContent(again) ==
  validEmojis[1] \o Chars(IF again THEN " How is climate risk managed now?"
                                   ELSE " How is climate risk managed?")

InitCache ==
  /\ count = 0
  /\ frameworks = <<>>
  /\ pc = "cache"
  /\ allFrameworkQuestions = <<>>
  /\ frameworkDescriptions = <<>>
  /\ allQuestionPairs = <<>>
  /\ chunkStart = 0
  /\ batchStart = 0
  /\ tests = <<>>
  /\ attempts = <<>>
  /\ generatedQuestions = <<>>
  /\ outcome = Pending
  /\ questionCache = <<>>
  /\ probe = [inserted |-> 0, calls |-> <<>>, reinserted |-> 0]

\* the pairs a call is made for: the next pair not seen before, once at a time, and
\* the pairs asked for again
CallableKeys ==
  {n \in (RepeatKeys \cup {probe.inserted + 1}) \cap (1..MaxKeys) :
     /\ n <= probe.inserted + 1
     /\ n \in RepeatKeys \/ \A i \in 1..Len(probe.calls) : probe.calls[i] # n}

\* openai.ts:29-103: a call for the n-th pair finds no entry under its key and waits
\* for the answer of the service
CallMisses ==
  /\ pc = "cache"
  /\ Len(probe.calls) < MaxInFlight
  /\ \E n \in CallableKeys :
        /\ MergeEntry(KeyArguments(n), questionCache).kind = "call"
        /\ probe' = [probe EXCEPT !.calls = Append(probe.calls, n)]
  /\ UNCHANGED <<count, frameworks, chunkStart, tests,
                 fetched, pc, allQuestionPairs, batchStart, attempts,
                 generatedQuestions, outcome, questionCache>>

\* the calls in flight without the i-th
WithoutCall(calls, i) == SubSeq(calls, 1, i - 1) \o SubSeq(calls, i + 1, Len(calls))

\* openai.ts:105-139 for the call in flight at position i: its answer is valid, its
\* merged question is stored under its key and returned
StoreFor(i, n) ==
  /\ questionCache' = MergeAccept(KeyArguments(n), questionCache,
                                  StoredContent(n <= probe.inserted), 1).cache
  /\ probe' = [inserted |-> IF n > probe.inserted THEN n ELSE probe.inserted,
               calls |-> WithoutCall(probe.calls, i),
               reinserted |-> IF n <= probe.inserted /\ ~CacheHas(questionCache, KeyOf(n))
                              THEN probe.reinserted + 1
                              ELSE probe.reinserted]
  /\ UNCHANGED <<count, frameworks, chunkStart, tests,
                 fetched, pc, allQuestionPairs, batchStart, attempts,
                 generatedQuestions, outcome>>

\* the service answers one of the calls in flight, in any order
AnswerStored ==
  /\ pc = "cache"
  /\ \E i \in 1..Len(probe.calls) : StoreFor(i, probe.calls[i])

NextCache ==
  \/ CallMisses
  \/ AnswerStored

SpecCache == InitCache /\ [][NextCache]_vars

\* the keys of the cache in the order of the Map
CacheKeys(cache) == [i \in 1..Len(cache) |-> cache[i].key]

\* of the keys stored so far the cache holds exactly the 100 stored last
HoldsLastStored ==
  \A n \in 1..probe.inserted :
     CacheHas(questionCache, KeyOf(n)) <=> n > probe.inserted - CACHE_LIMIT

\* C12 as stated: after any sequence of calls, interleaved or not, the cache holds at
\* most 100 entries, and of the keys inserted it holds the 100 inserted last: after 101
\* distinct keys the first-inserted key is not retrievable while the other 100 are
C12_AsStated ==
  pc = "cache" =>
    /\ Len(questionCache) <= CACHE_LIMIT
    /\ HoldsLastStored

\* a step leaves the keys as they are (a store under a key that is present keeps its
\* place), or puts a key that was absent last and evicts the first key when that makes
\* more than 100
FifoStep(before, after) ==
  \/ CacheKeys(after) = CacheKeys(before)
  \/ /\ after # <<>>
     /\ ~CacheHas(before, after[Len(after)].key)
     /\ CacheKeys(after) =
          (IF Len(before) = CACHE_LIMIT THEN Tail(CacheKeys(before)) ELSE CacheKeys(before))
            \o <<after[Len(after)].key>>

\* C12: after any sequence of calls, interleaved or not, the cache holds at most 100
\* entries; a store under a key that is present keeps the place of the key, a store
\* under a key that is absent puts it last and, beyond 100 entries, evicts the first
\* key, the earliest-inserted still present; and as long as no evicted key has been
\* stored again the cache holds exactly the 100 keys stored last: after 101 distinct
\* keys the first-inserted key is not retrievable while the other 100 are
C12_CacheIsBoundedFifo ==
  /\ [](pc = "cache" => Len(questionCache) <= CACHE_LIMIT)
  /\ [][pc = "cache" => FifoStep(questionCache, questionCache')]_vars
  /\ []((pc = "cache" /\ probe.reinserted = 0) => HoldsLastStored)

\* 101 keys have been stored and none again after its eviction: the first is gone, the
\* other 100 are retrievable, and the second holds the merged question of a call that
\* stored it again while it was present
C12_Witness ==
  /\ pc = "cache" /\ probe.inserted = CACHE_LIMIT + 1 /\ probe.reinserted = 0
  /\ ~CacheHas(questionCache, KeyOf(1))
  /\ \A n \in 2..(CACHE_LIMIT + 1) : CacheHas(questionCache, KeyOf(n))
  /\ Len(questionCache) = CACHE_LIMIT
  /\ CacheGet(questionCache, KeyOf(2))
       = MergeAccept(KeyArguments(2), <<>>, StoredContent(TRUE), 1).text

(***************************************************************************)
(* createMergedQuestion called again for the same pair: what the first     *)
(* call left in the cache is what the second finds.                        *)
(***************************************************************************)
MaxRepeats == 2

\* the pairs of MergePairs that are not short-circuited at line 678
RepeatPairs == {pair \in MergePairs : ~IdenticalAfterNormalization(pair)}

InitRepeat ==
  /\ count = 1
  /\ frameworks = <<"TCFD", "GRI Standards">>
  /\ pc = "repeat"
  /\ allFrameworkQuestions = <<>>
  /\ frameworkDescriptions = <<>>
  /\ allQuestionPairs \in {<<pair>> : pair \in RepeatPairs}
  /\ chunkStart = 0
  /\ batchStart = 0
  /\ tests = <<>>
  /\ attempts = <<>>
  /\ generatedQuestions = <<>>
  /\ outcome = Pending
  /\ questionCache = <<>>
  /\ probe = <<>>

\* the next call of createMergedQuestion for the pair, once the promise of the call
\* before it has settled; the merge of that call may still be running
StartRepeat ==
  /\ pc = "repeat"
  /\ Len(attempts) < MaxRepeats
  /\ Unsettled = {}
  /\ \E draws \in Draws(Plans(allQuestionPairs, 1, 1, questionCache)) :
        attempts' = attempts \o NewAttempts(allQuestionPairs, 1, 1, 0, "repeat",
                                            Plans(allQuestionPairs, 1, 1, questionCache), draws)
  /\ UNCHANGED <<count, frameworks, chunkStart, tests,
                 fetched, pc, allQuestionPairs, batchStart,
                 generatedQuestions, outcome, questionCache, probe>>

NextRepeat ==
  \/ StartRepeat
  \/ ServiceAnswers
  \/ Timers

SpecRepeat == InitRepeat /\ [][NextRepeat]_vars

\* attempt j found the key of its pair in the cache
CacheHit(j) ==
  /\ attempts[j].calls = 0
  /\ attempts[j].race.kind = "text"
  /\ ~IdenticalAfterNormalization(allQuestionPairs[attempts[j].pos])

\* attempt i did not find the key and its merge is over
CacheMiss(i) == attempts[i].calls > 0 /\ attempts[i].stage = "done"

\* the text of a Question after its emoji
TextAfterEmoji(q) == SubSeq(q.text, Len(q.emoji) + 1, Len(q.text))

SameOutcome(i, j) ==
  /\ attempts[i].value = Null <=> attempts[j].value = Null
  /\ (attempts[i].value # Null /\ attempts[j].value # Null)
       => TextAfterEmoji(attempts[i].value[1]) = TextAfterEmoji(attempts[j].value[1])

\* C13: createMergedQuestion gives the same outcome for a pair, apart from the emoji
\* drawn, when the key of the pair is in the cache as when it is not.  Two calls for
\* the pair are compared when they drew the same emoji or the draw of the call that
\* missed the cache decided nothing; the call that hit the cache found what the other
\* call stored, so the service gave both the same answer
C13_CacheIsAdvisory ==
  pc = "repeat" =>
    \A i, j \in 1..Len(attempts) :
       (CacheMiss(i) /\ CacheHit(j) /\ attempts[i].emoji \in {0, attempts[j].emoji})
         => SameOutcome(i, j)

\* two frameworks are loaded with one question each, and the two texts are the same
TwinQuestions ==
  /\ Len(frameworks) = 2
  /\ Len(LoadedQuestions(1)) = 1 /\ Len(LoadedQuestions(2)) = 1
  /\ LoadedQuestions(1)[1].question = LoadedQuestions(2)[1].question

\* the call has returned one question, not flagged as generated, whose text is an emoji,
\* a space and body
ReturnedOriginal(body) ==
  /\ Returned
  /\ Len(outcome.questions) = 1
  /\ outcome.questions[1].generatedWithAI = FALSE
  /\ \E e \in 1..Len(validEmojis) :
        outcome.questions[1].text = validEmojis[e] \o <<" ">> \o body

\* C14 as stated: for two frameworks that hold one question each, with the same text,
\* a call for at least one question returns exactly one question, not flagged as
\* generated, whose text is an emoji, a space and the text of the question unchanged
C14_AsStated ==
  (pc = "done" /\ count >= 1 /\ TwinQuestions)
    => ReturnedOriginal(LoadedQuestions(1)[1].question)

\* C14: for two frameworks that hold one question each, with the same text, a call for
\* at least one question returns exactly one question, not flagged as generated, whose
\* text is an emoji, a space and the text as cleanInput leaves it, when the question
\* scores at least 10 against itself; when it does not the call fails
C14_TwinQuestionsReturnedOnce ==
  (pc = "done" /\ count >= 1 /\ TwinQuestions)
    => IF ScoreAtLeast(CandidateScore(<<<<1, 2>>, 1, 1>>), MIN_SIMILARITY_THRESHOLD)
       THEN ReturnedOriginal(cleanInput(LoadedQuestions(1)[1].question))
       ELSE FailedWithNoQuestions

\* the one question of two frameworks has been returned with a text that cleanInput
\* changed
C14_Witness ==
  /\ pc = "done" /\ count >= 1 /\ TwinQuestions
  /\ cleanInput(LoadedQuestions(1)[1].question) # LoadedQuestions(1)[1].question
  /\ ReturnedOriginal(cleanInput(LoadedQuestions(1)[1].question))

\* the cache key of the merge of attempt i (openai.ts:66)
AttemptKey(i) ==
  LET a == MergeArguments(allQuestionPairs[attempts[i].pos])
  IN  CacheKey(a.framework1, a.framework2, a.question1, a.question2,
               a.thematicConnection, a.similarityScore)

\* the attempts whose timer won the race
TimedOutAttempts == {i \in 1..Len(attempts) : attempts[i].race.kind = "timeout"}

\* C15 as stated: an attempt whose timer won the race has yielded null, and the result
\* of its call, when it arrives, is ignored: the cache every later merge reads first
\* holds nothing under the key of that attempt
C15_LateResultIsIgnored ==
  pc \in {"initial", "additional", "done"} =>
    \A i \in TimedOutAttempts :
       /\ attempts[i].value = Null
       /\ ~CacheHas(questionCache, AttemptKey(i))

(***************************************************************************)
(* A call for more questions than one batch holds, for two frameworks      *)
(* whose 25 pairs all reach the threshold and none of which is identical.  *)
(* The service does not answer while the call runs: each attempt ends by   *)
(* its timer.                                                              *)
(***************************************************************************)
MaxBigCount == 11

InitBig ==
  /\ count \in (BATCH_SIZE + 1)..MaxBigCount
  /\ frameworks = <<"Many A", "Many B">>
  /\ pc = "ready"
  /\ allFrameworkQuestions = <<>>
  /\ frameworkDescriptions = <<>>
  /\ allQuestionPairs = <<>>
  /\ chunkStart = 0
  /\ batchStart = 0
  /\ tests = <<>>
  /\ attempts = <<>>
  /\ generatedQuestions = <<>>
  /\ outcome = Pending
  /\ questionCache = <<>>
  /\ probe = <<>>

NextBig ==
  \/ Generate
  \/ DataLoaded
  \/ ChunkScored
  \/ BatchSettled
  \/ AdditionalSettled
  \/ Timers

SpecBig == InitBig /\ [][NextBig]_vars

\* the attempts whose promise has not settled
AttemptsInFlight == Cardinality(Unsettled)

\* the attempts with a call to the service that has not answered
CallsInFlight ==
  Cardinality({i \in 1..Len(attempts) : attempts[i].stage \in {"primary", "fallback"}})

\* C16 as stated: at every moment of a call at most BATCH_SIZE = 10 merge attempts are
\* in flight, and at most 10 calls to the service, in the batches and in the
\* additional round alike
C16_AtMostBatchSizeInFlight ==
  /\ AttemptsInFlight <= BATCH_SIZE
  /\ CallsInFlight <= BATCH_SIZE

(***************************************************************************)
(* A call for 11 questions for two frameworks with 13 candidate pairs: two *)
(* at the top of the ranking that need the service, nine identical ones,   *)
(* and two at the end that need the service.  The first batch holds ten    *)
(* pairs, the second one, and the additional round the last two.           *)
(***************************************************************************)
InitBatches ==
  /\ count \in (BATCH_SIZE + 1)..MaxBigCount
  /\ frameworks = <<"Rows A", "Rows B">>
  /\ pc = "ready"
  /\ allFrameworkQuestions = <<>>
  /\ frameworkDescriptions = <<>>
  /\ allQuestionPairs = <<>>
  /\ chunkStart = 0
  /\ batchStart = 0
  /\ tests = <<>>
  /\ attempts = <<>>
  /\ generatedQuestions = <<>>
  /\ outcome = Pending
  /\ questionCache = <<>>
  /\ probe = <<>>

\* the call runs on its own
NextBatches ==
  \/ Generate
  \/ DataLoaded
  \/ ChunkScored
  \/ BatchSettled
  \/ AdditionalSettled
  \/ ServiceAnswers
  \/ Timers

SpecBatches == InitBatches /\ [][NextBatches]_vars

\* the round attempt i belongs to: the number of its batch, and for an additional
\* attempt a number above every batch
Round(i) ==
  IF attempts[i].phase = "initial"
  THEN (attempts[i].pos - 1) \div BATCH_SIZE
  ELSE Len(allQuestionPairs)

\* no attempt of a round exists while an attempt of an earlier round has not settled
RoundsInSequence ==
  \A i, j \in 1..Len(attempts) :
     Round(i) < Round(j) => attempts[i].settle # "pending"

\* the returned questions come from attempts, and where one precedes another its
\* pair is ranked before the other's
RankOrderKept ==
  /\ \A k \in 1..Len(outcome.questions) :
        \E i \in 1..Len(attempts) : attempts[i].value = <<outcome.questions[k]>>
  /\ \A k, l \in 1..Len(outcome.questions) :
        k < l =>
          \A i, j \in 1..Len(attempts) :
             (/\ attempts[i].value = <<outcome.questions[k]>>
              /\ attempts[j].value = <<outcome.questions[l]>>)
               => attempts[i].pos < attempts[j].pos

\* C17: batches run strictly one after another (no attempt of a batch has started
\* while an attempt of the batch before has not completed), and the returned list
\* keeps the order of the ranking: where X precedes Y in the result, the pair of X is
\* ranked before the pair of Y, in whatever order the calls completed
C17_BatchesInSequenceAndRankOrder ==
  /\ RoundsInSequence
  /\ Returned => RankOrderKept

\* a call for 11 has returned 11 questions: the first from a pair the service merged
\* in the first batch, whose neighbour in that batch failed, others from the second
\* batch and from a pair the service merged in the additional round
C17_Witness ==
  /\ Returned /\ Len(outcome.questions) = BATCH_SIZE + 1
  /\ attempts[1].calls > 0 /\ attempts[1].value # Null
  /\ attempts[2].value = Null
  /\ \E i \in 1..Len(attempts) : attempts[i].phase = "initial" /\ Round(i) = 1
                                  /\ attempts[i].value # Null
  /\ \E i \in 1..Len(attempts) : attempts[i].phase = "additional" /\ attempts[i].calls > 0
                                  /\ attempts[i].value # Null

\* the positions in the ranking of the attempts of the additional round
AdditionalPositions ==
  {attempts[i].pos : i \in {j \in 1..Len(attempts) : attempts[j].phase = "additional"}}

\* the batches are exhausted with fewer than count questions and more than count
\* pairs are ranked: the additional round has started or is over
AdditionalRoundMade ==
  /\ pc \in {"additional", "done"}
  /\ \E i \in 1..Len(attempts) : attempts[i].phase = "additional"

\* the questions the batches produced: the values of the attempts of the batches
QuestionsOfBatches ==
  Cardinality({i \in 1..Len(attempts) :
                 attempts[i].phase = "initial" /\ attempts[i].value # Null})

\* each pair of the additional round is attempted once, and in the order of the ranking
AdditionalOnceInOrder ==
  \A i, j \in 1..Len(attempts) :
     (attempts[i].phase = "additional" /\ attempts[j].phase = "additional" /\ i < j)
       => attempts[i].pos < attempts[j].pos

\* C18 as stated: when the additional round is made, the next count pairs of the
\* ranking (positions count to 2*count-1, counted from 0), as far as the ranking
\* goes, are all attempted
C18_AsStated ==
  AdditionalRoundMade =>
    AdditionalPositions = (count + 1)..Min(2 * count, Len(allQuestionPairs))

\* C18: when the batches are exhausted with k < count questions and more than count
\* pairs are ranked, the additional round attempts the first count - k pairs of
\* positions count to 2*count-1 (counted from 0), as far as the ranking goes, each
\* once and in rank order; with no such shortfall there is no additional attempt,
\* and after the additional round the call ends
C18_AdditionalRoundFillsShortfall ==
  /\ AdditionalRoundMade =>
       /\ QuestionsOfBatches < count /\ Len(allQuestionPairs) > count
       /\ AdditionalPositions =
            (count + 1)..Min(count + (count - QuestionsOfBatches),
                             Min(2 * count, Len(allQuestionPairs)))
       /\ AdditionalOnceInOrder
  /\ (pc = "done" /\ Returned /\ ~AdditionalRoundMade /\ Len(allQuestionPairs) > count)
       => QuestionsOfBatches >= count \/ count = 0

\* the additional round has attempted one pair of the two ranked after the selection,
\* the batches having fallen short by one, and the call has ended
C18_Witness ==
  /\ pc = "done" /\ AdditionalRoundMade
  /\ QuestionsOfBatches = count - 1
  /\ Len(allQuestionPairs) >= count + 2
  /\ Cardinality(AdditionalPositions) = 1

\* the arguments of the merge of a createMergedQuestion on its own
MergeOf == MergeArguments(allQuestionPairs[1])

\* the answer passes validateResponse after the trim of openai.ts:103
PassesValidation(answer) ==
  /\ answer.ok
  /\ validateResponse(trim(answer.content), MergeOf.question1, MergeOf.question2)

\* the answer as mergeQuestionsWithAI returns it (openai.ts:128), for some draw
IsFormatted(text, answer) ==
  \E e \in AllEmojiChoices : text = ensureFormattingRequirements(trim(answer.content), e)

\* mergeQuestionsWithAI has returned text to the race of attempt 1
MergeGave(text) ==
  /\ attempts[1].stage = "done"
  /\ attempts[1].race.kind = "text" => attempts[1].race.text = text

\* C19: in mergeQuestionsWithAI, when the primary output fails validateResponse: with
\* a similarity score above 0.8 the result is the longer of the two questions and no
\* second call is made; otherwise exactly one fallback call is made, its output is the
\* result only if it passes validateResponse (DIFFERENT_CONTEXT never does), and else
\* the result is the longer question.  No merge makes more than two calls.
C19_FallbackAfterInvalidPrimary ==
  (pc = "merge" /\ Len(attempts) = 1) =>
    /\ attempts[1].calls <= 2
    /\ Len(probe) <= attempts[1].calls
    /\ (Len(probe) >= 1 /\ probe[1].ok /\ ~PassesValidation(probe[1])) =>
         IF ScoreLess(PointEight, MergeOf.similarityScore)
         THEN /\ attempts[1].calls = 1
              /\ MergeGave(LongerOf(MergeOf.question1, MergeOf.question2))
         ELSE /\ attempts[1].calls = 2
              /\ IF Len(probe) = 1 THEN attempts[1].stage = "fallback"
                 ELSE IF PassesValidation(probe[2])
                 THEN attempts[1].stage = "done"
                      /\ attempts[1].race.kind = "text"
                           => IsFormatted(attempts[1].race.text, probe[2])
                 ELSE MergeGave(LongerOf(MergeOf.question1, MergeOf.question2))
    /\ \A k \in 1..Len(probe) :
          probe[k] = Answer(Chars("DIFFERENT_CONTEXT")) => ~PassesValidation(probe[k])

\* a merge whose primary output failed validateResponse made its one fallback call,
\* which answered DIFFERENT_CONTEXT, and returned the longer question
C19_Witness ==
  /\ pc = "merge" /\ Len(attempts) = 1 /\ Len(probe) = 2
  /\ probe[1].ok /\ ~PassesValidation(probe[1])
  /\ probe[2] = Answer(Chars("DIFFERENT_CONTEXT"))
  /\ attempts[1].calls = 2 /\ attempts[1].stage = "done"
  /\ attempts[1].race = Resolved(LongerOf(MergeOf.question1, MergeOf.question2))

\* the attempts whose race the merge won: the model path of createMergedQuestion
ModelPath == {i \in 1..Len(attempts) : attempts[i].race.kind = "text"}

\* the text of line 754 for attempt i: the emoji drawn, a space, the cleaned output
FinalTextOf(i) ==
  validEmojis[attempts[i].emoji] \o <<" ">> \o CleanModelOutput(attempts[i].race.text)

TooShort(i) == Len(FinalTextOf(i)) < MinQuestionLength

TooLong(i) == Len(FinalTextOf(i)) > MaxQuestionLength

WrongFormat(i) == ~MatchesQuestionFormat(FinalTextOf(i))

\* a question of the sequence comes from the pair of attempt i
HoldsPairOf(questions, i) ==
  \E k \in 1..Len(questions) :
     /\ questions[k].frameworks = <<allQuestionPairs[attempts[i].pos].framework1,
                                    allQuestionPairs[attempts[i].pos].framework2>>
     /\ questions[k].originalQuestions[1].text = Text1(allQuestionPairs[attempts[i].pos])
     /\ questions[k].originalQuestions[2].text = Text2(allQuestionPairs[attempts[i].pos])

\* C20: a merge on the model path whose final text (cleaned, closed with '?',
\* capitalised, prefixed with the emoji) is shorter than 10 or longer than 500
\* characters, or does not start with an emoji glyph, a space and a capital letter,
\* makes createMergedQuestion return null, and the pair is not among the questions
\* accumulated and counted against count
C20_RejectedTextYieldsNull ==
  pc \in {"initial", "additional", "done"} =>
    /\ \A i \in ModelPath :
          (TooShort(i) \/ TooLong(i) \/ WrongFormat(i)) =>
            /\ attempts[i].settle = "resolved"
            /\ attempts[i].value = Null
            /\ ~HoldsPairOf(generatedQuestions, i)
            /\ ~HoldsPairOf(outcome.questions, i)
    /\ (pc = "done" /\ attempts # <<>>) =>
         Len(generatedQuestions) =
           Cardinality({i \in 1..Len(attempts) : attempts[i].value # Null})

\* a call for one question has ended after an attempt on the model path whose final
\* text had the format and fewer than 10 characters: the attempt gave null and no
\* question of its pair was accumulated
C20_Witness ==
  /\ pc = "done" /\ count = 1
  /\ \E i \in ModelPath :
        /\ TooShort(i) /\ MatchesQuestionFormat(FinalTextOf(i))
        /\ attempts[i].calls > 0
        /\ attempts[i].value = Null
        /\ ~HoldsPairOf(generatedQuestions, i)

(***************************************************************************)
(* Calls for more questions than one batch holds, with a service that      *)
(* never answers.  The timers fire and the continuations of the settled    *)
(* promises run: the event loop leaves neither waiting for ever.           *)
(***************************************************************************)
InitSilent ==
  /\ count \in (BATCH_SIZE + 1)..MaxBigCount
  /\ frameworks \in {<<"Many A", "Many B">>, <<"Rows A", "Rows B">>}
  /\ pc = "ready"
  /\ allFrameworkQuestions = <<>>
  /\ frameworkDescriptions = <<>>
  /\ allQuestionPairs = <<>>
  /\ chunkStart = 0
  /\ batchStart = 0
  /\ tests = <<>>
  /\ attempts = <<>>
  /\ generatedQuestions = <<>>
  /\ outcome = Pending
  /\ questionCache = <<>>
  /\ probe = <<>>

\* the await of line 239 or of line 265 can return: each promise it waits for has settled
AwaitReturns == pc \in {"initial", "additional"} /\ Current \cap Unsettled = {}

\* the call goes on after its await, to the next batch, the additional round or its
\* end: the step BatchSettled or AdditionalSettled, told by the change of pc or of
\* batchStart that only these two make
GoesOn ==
  /\ AwaitReturns
  /\ pc' \in {"initial", "additional", "done"}
  /\ batchStart' \in {batchStart, batchStart + BATCH_SIZE}

\* the timers fire (setTimeout, line 729) and the continuation of a settled
\* Promise.all runs (lines 239, 265)
SpecSilent ==
  /\ InitSilent /\ [][NextBig]_vars
  /\ WF_vars(Timers)
  /\ WF_<<pc, batchStart>>(GoesOn)

\* C21: once the framework data has loaded, a run whose service never answers a call
\* ends all the same: it returns a list or fails with the no-questions error, each
\* attempt ending when its timer fires, and with it every batch and the additional round
C21_SilentServiceRunEnds ==
  (pc \in {"initial", "additional"}) ~> (pc = "done" /\ (Returned \/ Threw))

\* a run has ended after two batches and an additional round in which the timer of
\* every attempt that needed the service fired
C21_Witness ==
  /\ pc = "done" /\ (Returned \/ Threw)
  /\ \E i \in 1..Len(attempts) : attempts[i].phase = "initial" /\ attempts[i].pos > BATCH_SIZE
  /\ \E i \in 1..Len(attempts) : attempts[i].phase = "additional"
  /\ TimedOutAttempts # {}
  /\ \A i \in 1..Len(attempts) : attempts[i].calls > 0 => attempts[i].race = TimedOut

(***************************************************************************)
(* extractKeywords on its own (openai.ts:193-201).                         *)
(***************************************************************************)
\* the state of a function applied on its own: pc names it, the variables of the
\* pipeline are idle
Alone(name) ==
  /\ count = 0
  /\ frameworks = <<>>
  /\ pc = name
  /\ allFrameworkQuestions = <<>>
  /\ frameworkDescriptions = <<>>
  /\ allQuestionPairs = <<>>
  /\ chunkStart = 0
  /\ batchStart = 0
  /\ tests = <<>>
  /\ attempts = <<>>
  /\ generatedQuestions = <<>>
  /\ outcome = Pending
  /\ questionCache = <<>>

MaxWords == 2

\* the words the texts given to extractKeywords are made of
KeywordWords == TextSet({"and?", "does,", "The", "(a).", "risk", "Climate?", "with",
                         "policy", "'''!", "your"})

\* the texts of at most MaxWords words, the empty text among them
KeywordTexts ==
  {JoinSpace(words) : words \in UNION {[1..n -> KeywordWords] : n \in 0..MaxWords}}

InitKeywords ==
  /\ Alone("keywords")
  /\ probe \in {[text |-> text, keywords |-> <<>>, returned |-> FALSE] : text \in KeywordTexts}

\* extractKeywords(probe.text) is called and returns
Extract ==
  /\ pc = "keywords"
  /\ ~probe.returned
  /\ probe' = [probe EXCEPT !.keywords = extractKeywords(probe.text), !.returned = TRUE]
  /\ UNCHANGED <<count, frameworks, chunkStart, tests,
                 fetched, pc, allQuestionPairs, batchStart, attempts,
                 generatedQuestions, outcome, questionCache>>

NextKeywords == Extract

SpecKeywords == InitKeywords /\ [][NextKeywords]_vars

\* C22 as stated: extractKeywords returns no token of length 3 or less and no token
\* that is in its stopword list, compared without regard to case, and for the empty
\* text it returns nothing
C22_KeywordsAreLongAndNoStopwords ==
  (pc = "keywords" /\ probe.returned) =>
    /\ \A k \in 1..Len(probe.keywords) :
          /\ Len(probe.keywords[k]) > 3
          /\ toLowerCase(probe.keywords[k]) \notin keywordStopwords
    /\ probe.text = <<>> => probe.keywords = <<>>

(***************************************************************************)
(* findThematicConnection on its own (part_000:294-368).                   *)
(***************************************************************************)
\* the framework names the function is given: names of the table of known pairs, the
\* halves of keys of the default themes, a name that is in neither, and names of
\* properties that every object inherits
ThemeNames == {"TCFD", "GRI Standards", "SASB", "Integrated Reporting", "GRI", "UNGC",
               "ISO26000", "Local Code", "constructor", "name", "toString", "caller",
               "__proto__"}

\* the descriptions the function is given; frameworkDescriptions[name] of a name
\* without description is the empty one, that of the name __proto__ is an object
ThemeDescriptions == {StringValue(""),
                      StringValue("Climate-related financial risk disclosure"),
                      StringValue("RISK and Governance of the climate"),
                      StringValue("Social value"),
                      ObjectValue("Object.prototype")}

InitThemes ==
  /\ Alone("themes")
  /\ probe \in {[framework1 |-> f1, framework2 |-> f2, description1 |-> d1,
                 description2 |-> d2, connection |-> <<>>] :
                  f1 \in ThemeNames, f2 \in ThemeNames,
                  d1 \in ThemeDescriptions, d2 \in ThemeDescriptions}

\* findThematicConnection(framework1, framework2, description1, description2) is
\* called and returns
Connect ==
  /\ pc = "themes"
  /\ probe.connection = <<>>
  /\ probe' = [probe EXCEPT !.connection =
                 <<findThematicConnection(probe.framework1, probe.framework2,
                                          probe.description1, probe.description2)>>]
  /\ UNCHANGED <<count, frameworks, chunkStart, tests,
                 fetched, pc, allQuestionPairs, batchStart, attempts,
                 generatedQuestions, outcome, questionCache>>

NextThemes == Connect

SpecThemes == InitThemes /\ [][NextThemes]_vars

\* the entries of the table of known pairs for the two names, in either order
TableEntries(a, b) ==
  {StringValue(k[3]) : k \in {e \in knownConnections : <<e[1], e[2]>> \in {<<a, b>>, <<b, a>>}}}

\* the positions in the keyword list of the keywords both descriptions contain, case
\* set aside
SharedPositions(d1, d2) ==
  {k \in 1..Len(themeKeywords) :
     /\ d1.type = "string" /\ d2.type = "string"
     /\ Includes(toLowerCase(Chars(d1.value)), Chars(themeKeywords[k]))
     /\ Includes(toLowerCase(Chars(d2.value)), Chars(themeKeywords[k]))}

\* the default themes under the key of the pair, in either order
DefaultEntries(a, b) ==
  {StringValue(d[2]) : d \in {e \in defaultThemes : e[1] \in {a \o "-" \o b, b \o "-" \o a}}}

\* C23 as stated: findThematicConnection resolves in strict priority order: the entry of the
\* table of known pairs when the pair is in it in either order; else the first keyword
\* of the list that both descriptions contain, case set aside; else the default theme
\* under the key of the pair in either order; else the generic connection
C23_ConnectionByPriority ==
  (pc = "themes" /\ probe.connection # <<>>) =>
    IF TableEntries(probe.framework1, probe.framework2) # {}
    THEN probe.connection[1] \in TableEntries(probe.framework1, probe.framework2)
    ELSE IF SharedPositions(probe.description1, probe.description2) # {}
    THEN \E k \in SharedPositions(probe.description1, probe.description2) :
            /\ probe.connection[1] = StringValue(themeKeywords[k])
            /\ \A j \in SharedPositions(probe.description1, probe.description2) : k <= j
    ELSE IF DefaultEntries(probe.framework1, probe.framework2) # {}
    THEN probe.connection[1] \in DefaultEntries(probe.framework1, probe.framework2)
    ELSE probe.connection[1] = StringValue(GenericConnection)

\* C28 as stated: the connection does not depend on the order of the two frameworks:
\* findThematicConnection(A, B, dA, dB) = findThematicConnection(B, A, dB, dA)
C28_ConnectionIsSymmetric ==
  (pc = "themes" /\ probe.connection # <<>>) =>
    probe.connection[1] = findThematicConnection(probe.framework2, probe.framework1,
                                                 probe.description2, probe.description1)

\* C24 as stated: the questions of a returned list have pairwise distinct id values
\* and pairwise distinct ref values, whichever attempts gave null in earlier batches
\* or in the additional round
C24_IdsAndRefsAreDistinct ==
  Returned =>
    \A k, l \in 1..Len(outcome.questions) :
       k # l => /\ outcome.questions[k].id # outcome.questions[l].id
                /\ outcome.questions[k].ref # outcome.questions[l].ref

\* C25 as stated: whether createMergedQuestion accepts a pair that is not identical
\* does not depend on the emoji drawn: for the pair and the text its merge returned,
\* each of the 12 glyphs leads to a Question or each of them leads to null
C25_AcceptanceIgnoresEmoji ==
  (pc = "merge" /\ Len(attempts) = 1 /\ attempts[1].race.kind = "text") =>
    \A e1, e2 \in AllEmojiChoices :
       (TryMerge(allQuestionPairs[1], attempts[1].index, e1, attempts[1].race).value = Null)
         <=> (TryMerge(allQuestionPairs[1], attempts[1].index, e2, attempts[1].race).value
                = Null)

\* C26 as stated: a question is flagged generatedWithAI only if its text derives from
\* an answer of the service, primary or fallback, that passed validateResponse; a
\* question whose text is one of the original questions is never flagged
C26_FlagMeansValidatedAnswer ==
  (/\ pc = "merge" /\ Len(attempts) = 1
   /\ attempts[1].value # Null
   /\ attempts[1].value[1].generatedWithAI) =>
    \E k \in 1..Len(probe) :
       /\ PassesValidation(probe[k])
       /\ IsFormatted(attempts[1].race.text, probe[k])

\* the attempts made for the pair at position p of the ranking
SubmittedAt(p) == {i \in 1..Len(attempts) : attempts[i].pos = p}

\* the batch loop is over: the additional round runs or the call has ended
LoopIsOver == pc \in {"additional", "done"}

\* C27: in one call no candidate pair is submitted to createMergedQuestion more than
\* once, every pair of the initial selection of the top count pairs is submitted
\* exactly once by the time the batch loop is over (the early stop skips none), and
\* the number of attempts is at most 2 * count minus the successes of the batches
C27_EachPairOnceAndBounded ==
  /\ \A p \in 1..Len(allQuestionPairs) : Cardinality(SubmittedAt(p)) <= 1
  /\ \A i, j \in 1..Len(attempts) :
        i # j => allQuestionPairs[attempts[i].pos].origin
                   # allQuestionPairs[attempts[j].pos].origin
  /\ LoopIsOver =>
       \A p \in 1..Min(count, Len(allQuestionPairs)) :
          \E i \in SubmittedAt(p) : attempts[i].phase = "initial"
  /\ Len(attempts) <= 2 * count - QuestionsOfBatches

\* a call for 11 has ended after two batches in which both pairs that needed the
\* service failed and an additional round of two: 13 attempts, the most allowed
C27_Witness ==
  /\ pc = "done" /\ Returned
  /\ QuestionsOfBatches = count - 2
  /\ \E i \in 1..Len(attempts) : attempts[i].phase = "initial" /\ Round(i) = 1
  /\ Cardinality(AdditionalPositions) = 2
  /\ Len(attempts) = 2 * count - QuestionsOfBatches

====
